---- MODULE Spec2Model ----
(***************************************************************************)
(* Loop access analysis (lib/Analysis/LoopAccessAnalysis.cpp).             *)
(*                                                                         *)
(* One run of the LoopAccessInfo constructor on one loop: canAnalyzeLoop   *)
(* followed by analyzeLoop, with the access classifier                     *)
(* (AccessAnalysis), the runtime-check builder (canCheckPtrAtRT) and the   *)
(* dependence checker (MemoryDepChecker) it drives.  The loop, the alias   *)
(* oracle's partition and the command-line options are inputs drawn from   *)
(* bounded sets in Init; the answers of the loop inspector are drawn when  *)
(* canAnalyzeLoop asks for them.                                           *)
(***************************************************************************)
EXTENDS Integers, Sequences, FiniteSets, TLC

(***************************************************************************)
(* Bounds of the model.                                                    *)
(***************************************************************************)
\* Longest loop body (memory instructions) enumerated freely.
MaxInstrs == 3

\* Width of `unsigned` and `int` in the model.  TLC's integers are narrower
\* than 2^32, so the machine word is scaled down; -1U is 2^UnsignedBits - 1.
UnsignedBits == 16

(***************************************************************************)
(* Program constants.                                                      *)
(***************************************************************************)
MaxVectorWidth == 64

DefaultRuntimeMemoryCheckThreshold == 8

UINT_MAX == 2^UnsignedBits - 1

\* DepChecker.MaxSafeDepDistBytes has no initializer in the constructor
\* (line 501-503); it is written by areDepsSafe before anything reads it.
Uninitialized == -1

NoReport == "none"

Range(s) == {s[i] : i \in DOMAIN s}

Abs(x) == IF x < 0 THEN -x ELSE x

\* C++ integer division and remainder (truncation toward zero).
SDiv(a, b) == IF (a < 0) = (b < 0) THEN Abs(a) \div Abs(b) ELSE -(Abs(a) \div Abs(b))

SRem(a, b) == a - b * SDiv(a, b)

\* Conversion of a 64-bit value to `unsigned` and to `int`.
ToUnsigned(x) == x % (2^UnsignedBits)

ToInt(x) == LET m == x % (2^UnsignedBits)
            IN  IF m >= 2^(UnsignedBits - 1) THEN m - 2^UnsignedBits ELSE m

(***************************************************************************)
(* The IR the analysis looks at: pointer values and what the data layout   *)
(* and the scalar-evolution oracle say about them.                         *)
(***************************************************************************)
ElemTypes == {"i8", "i32", "float", "i64", "struct"}

\* DataLayout::getTypeAllocSize
getTypeAllocSize(ty) ==
  CASE ty = "i8"     -> 1
    [] ty = "i32"    -> 4
    [] ty = "float"  -> 4
    [] ty = "i64"    -> 8
    [] ty = "struct" -> 8

\* Type::isAggregateType
isAggregateType(ty) == ty = "struct"

\* A SCEV of a pointer: {base + off, +, step}<loop> when kind = "addrec";
\* "unknown" is a SCEVUnknown (an indirect index), "invariant" a value that
\* does not change in the loop.  loop: "L" is the analysed loop, "outer" a
\* loop around it.  stepConst = FALSE: the step is no SCEVConstant.  wide:
\* the step is a constant of more than 64 bits.  symStride: the step is a
\* symbolic stride that the rewrite of replaceSymbolicStrideSCEV turns into
\* the constant `step`.
AddRecOver(loop, base, off, step, nowrap) ==
  [kind |-> "addrec", loop |-> loop, base |-> base, off |-> off, step |-> step,
   stepConst |-> TRUE, wide |-> FALSE, affine |-> TRUE, nowrap |-> nowrap,
   symStride |-> FALSE]

AddRec(base, off, step, nowrap) == AddRecOver("L", base, off, step, nowrap)

Unknown(base) ==
  [kind |-> "unknown", loop |-> "none", base |-> base, off |-> 0, step |-> 0,
   stepConst |-> FALSE, wide |-> FALSE, affine |-> FALSE, nowrap |-> FALSE,
   symStride |-> FALSE]

Invariant(base) ==
  [kind |-> "invariant", loop |-> "none", base |-> base, off |-> 0, step |-> 0,
   stepConst |-> FALSE, wide |-> FALSE, affine |-> FALSE, nowrap |-> FALSE,
   symStride |-> FALSE]

Pointer(obj, as, ty, inb, scev) ==
  [obj |-> obj, as |-> as, ty |-> ty, inbounds |-> inb, scev |-> scev]

\* The pointer values of the loops that are analysed.
\*   a0 a1 a2 a6 am3 am8 : a[i], a[i+1], a[i+2], a[i+6], a[i-3], a[i-8] (i32)
\*   b0 b1            : b[i], b[i+1]                           (i32)
\*   c0               : c[i] in address space 1                (i32)
\*   d0 d1 d2         : d[i], d[i+1], d[i+2]                   (i64)
\*   an               : a[i+n], n not a compile-time constant
\*   ax               : a[x[i]], an indirect index
\*   au               : a loop-invariant address
\*   r0 r1 r2 rn      : a[-i], a[1-i], a[2-i], a[n-i]          (i32)
\*   f1 f2            : a[i+1], a[i+2] read or written as float
\*   e0 en            : e[2*i], e[2*i+n]                       (i32)
\*   ca               : a[i+2] through a cast to address space 1
\*   ao               : a[j], j the induction variable of the loop around
\*   ux               : u[x[i]], an indirect index into another array
Pointers ==
  "a0"  :> Pointer("a", 0, "i32", TRUE, AddRec("a", 0, 4, TRUE))   @@
  "a1"  :> Pointer("a", 0, "i32", TRUE, AddRec("a", 4, 4, TRUE))   @@
  "a2"  :> Pointer("a", 0, "i32", TRUE, AddRec("a", 8, 4, TRUE))   @@
  "a6"  :> Pointer("a", 0, "i32", TRUE, AddRec("a", 24, 4, TRUE))  @@
  "am3" :> Pointer("a", 0, "i32", TRUE, AddRec("a", -12, 4, TRUE)) @@
  "am8" :> Pointer("a", 0, "i32", TRUE, AddRec("a", -32, 4, TRUE)) @@
  "b0"  :> Pointer("b", 0, "i32", TRUE, AddRec("b", 0, 4, TRUE))   @@
  "b1"  :> Pointer("b", 0, "i32", TRUE, AddRec("b", 4, 4, TRUE))   @@
  "c0"  :> Pointer("c", 1, "i32", TRUE, AddRec("c", 0, 4, TRUE))   @@
  "d0"  :> Pointer("d", 0, "i64", TRUE, AddRec("d", 0, 8, TRUE))   @@
  "d1"  :> Pointer("d", 0, "i64", TRUE, AddRec("d", 8, 8, TRUE))   @@
  "d2"  :> Pointer("d", 0, "i64", TRUE, AddRec("d", 16, 8, TRUE))  @@
  "an"  :> Pointer("a", 0, "i32", TRUE, AddRec("a+n", 0, 4, TRUE)) @@
  "ax"  :> Pointer("a", 0, "i32", TRUE, Unknown("a+x"))            @@
  "au"  :> Pointer("u", 0, "i32", FALSE, Invariant("u"))           @@
  "r0"  :> Pointer("a", 0, "i32", TRUE, AddRec("a", 0, -4, TRUE))  @@
  "r1"  :> Pointer("a", 0, "i32", TRUE, AddRec("a", 4, -4, TRUE))  @@
  "r2"  :> Pointer("a", 0, "i32", TRUE, AddRec("a", 8, -4, TRUE))  @@
  "rn"  :> Pointer("a", 0, "i32", TRUE, AddRec("a+n", 0, -4, TRUE)) @@
  "f1"  :> Pointer("a", 0, "float", TRUE, AddRec("a", 4, 4, TRUE)) @@
  "f2"  :> Pointer("a", 0, "float", TRUE, AddRec("a", 8, 4, TRUE)) @@
  "e0"  :> Pointer("e", 0, "i32", TRUE, AddRec("e", 0, 8, TRUE))   @@
  "en"  :> Pointer("e", 0, "i32", TRUE, AddRec("e+n", 0, 8, TRUE)) @@
  "ca"  :> Pointer("a", 1, "i32", TRUE, AddRec("a", 8, 4, TRUE))   @@
  "ao"  :> Pointer("a", 0, "i32", TRUE, AddRecOver("outer", "a", 0, 4, TRUE)) @@
  "ux"  :> Pointer("u", 0, "i32", TRUE, Unknown("u+x"))

PtrNames == DOMAIN Pointers

getPointerAddressSpace(Ptr) == Pointers[Ptr].as

getElementType(Ptr) == Pointers[Ptr].ty

\* GetUnderlyingObjects: every pointer of the model has one underlying object.
GetUnderlyingObjects(Ptr) == Pointers[Ptr].obj

Objects == {Pointers[p].obj : p \in PtrNames}

\* Lines 74-104.  The SCEV of Ptr with its symbolic stride, when the map
\* Strides names the pointer, replaced by one.
replaceSymbolicStrideSCEV(Strides, Ptr) ==
  LET OrigSCEV == Pointers[Ptr].scev
  IN  IF OrigSCEV.symStride
      THEN IF Ptr \in Strides
           THEN [OrigSCEV EXCEPT !.stepConst = TRUE, !.symStride = FALSE]
           ELSE [OrigSCEV EXCEPT !.stepConst = FALSE]
      ELSE OrigSCEV

\* Lines 243-251.
hasComputableBounds(Strides, Ptr) ==
  LET PtrScev == replaceSymbolicStrideSCEV(Strides, Ptr)
  IN  IF PtrScev.kind # "addrec" THEN FALSE ELSE PtrScev.affine

\* Lines 581-585.
isInBoundsGep(Ptr) == Pointers[Ptr].inbounds

\* Width of int64_t in the model, scaled as UnsignedBits is.
Int64Bits == UnsignedBits + 8

\* Conversion to int64_t.
ToInt64(x) == LET m == x % (2^Int64Bits)
              IN  IF m >= 2^(Int64Bits - 1) THEN m - 2^Int64Bits ELSE m

\* Lines 590-665 without the test of lines 661-663.
StrideOfRecurrence_NoUnitStrideTest(P, PtrScev) ==
  LET IsInBoundsGEP == P.inbounds
      IsNoWrapAddRec == PtrScev.nowrap
      IsInAddressSpaceZero == P.as = 0
      Size == getTypeAllocSize(P.ty)
      StepVal == ToInt64(PtrScev.step)
      Stride == SDiv(StepVal, Size)
      Rem == SRem(StepVal, Size)
  IN  IF isAggregateType(P.ty) THEN 0
      ELSE IF PtrScev.kind # "addrec" THEN 0
      ELSE IF ~IsNoWrapAddRec /\ ~IsInBoundsGEP /\ ~IsInAddressSpaceZero THEN 0
      ELSE IF ~PtrScev.stepConst THEN 0
      ELSE IF PtrScev.wide THEN 0
      ELSE IF Rem # 0 THEN 0
      ELSE ToInt(Stride)

\* Lines 590-665 on the pointer P, PtrScev being what line 601 obtained.
\* Lines 611-614 print a message when the recurrence is over another loop
\* and go on.  The result is an `int`: the 64-bit Stride is converted on
\* return.
StrideOfRecurrence(P, PtrScev) ==
  LET IsInBoundsGEP == P.inbounds
      IsNoWrapAddRec == PtrScev.nowrap
      IsInAddressSpaceZero == P.as = 0
      Size == getTypeAllocSize(P.ty)
      StepVal == ToInt64(PtrScev.step)
      Stride == SDiv(StepVal, Size)
      Rem == SRem(StepVal, Size)
  IN  IF isAggregateType(P.ty) THEN 0
      ELSE IF PtrScev.kind # "addrec" THEN 0
      ELSE IF ~IsNoWrapAddRec /\ ~IsInBoundsGEP /\ ~IsInAddressSpaceZero THEN 0
      ELSE IF ~PtrScev.stepConst THEN 0
      ELSE IF PtrScev.wide THEN 0
      ELSE IF Rem # 0 THEN 0
      ELSE IF ~IsNoWrapAddRec /\ (IsInBoundsGEP \/ IsInAddressSpaceZero)
              /\ Stride # 1 /\ Stride # -1 THEN 0
      ELSE ToInt(Stride)

\* Lines 588-666.
isStridedPtr(Strides, Ptr) ==
  StrideOfRecurrence(Pointers[Ptr], replaceSymbolicStrideSCEV(Strides, Ptr))

\* LoopAccessInfo::isUniform, lines 1200-1202.  A recurrence over a loop
\* around the analysed loop does not change in the analysed loop.
isUniform(Ptr) ==
  \/ Pointers[Ptr].scev.kind = "invariant"
  \/ Pointers[Ptr].scev.kind = "addrec" /\ Pointers[Ptr].scev.loop # "L"

\* ScalarEvolution::getMinusSCEV(Sink, Src) for two affine recurrences: a
\* constant exactly when the bases are the same symbol, the steps agree and
\* the recurrences are over the same loop.
getMinusSCEV(Sink, Src) ==
  IF Sink.base = Src.base /\ Sink.step = Src.step /\ Sink.loop = Src.loop
  THEN [const |-> TRUE, val |-> Sink.off - Src.off]
  ELSE [const |-> FALSE, val |-> 0]

(***************************************************************************)
(* State.                                                                  *)
(***************************************************************************)
VARIABLES
  \* Inputs: the loop body (memory instructions in program order), the
  \* loop's parallel annotation, the alias oracle's answer, the symbolic
  \* strides handed to the constructor and the command-line options.
  Instrs, IsAnnotatedParallel, MayAlias, Strides,
  RuntimeMemoryCheckThreshold, VectorizationFactor, VectorizationInterleave,
  \* Position in the constructor.
  pc,
  \* LoopAccessInfo.
  CanVecMem, Report, MultipleReports, NumLoads, NumStores,
  MaxSafeDepDistBytes, PtrRtCheck,
  \* Locals of analyzeLoop.
  Seen, NumReads, NumReadWrites, NeedRTCheck, CanDoRT, NumComparisons,
  \* AccessAnalysis.
  Accesses, AST, ReadOnlyPtr, CheckDeps, DepCands, IsRTCheckNeeded,
  \* MemoryDepChecker.
  InstMap, DepMaxSafeDepDistBytes, ShouldRetryWithRuntimeCheck,
  \* Position of areDepsSafe in the class it is traversing.
  PairQueue,
  \* addRuntimeCheck: the values the expanded bounds have when the check
  \* runs, the instructions emitted and the pair returned.
  Starts, Ends, Emitted, RuntimeCheckRet,
  \* A call of isStridedPtr: its pointer and what it returned.
  StridePtr, StrideRet,
  \* LoopAccessAnalysis: the cache of the pass, what getInfo returned last
  \* and the LoopAccessInfo objects constructed so far.
  LoopAccessInfoMap, GetInfoRet, Constructed,
  \* A call of couldPreventStoreLoadForward: its arguments with the member
  \* MaxSafeDepDistBytes at the call, and what it returned.
  ForwardArgs, ForwardRet

inputVars == <<Instrs, IsAnnotatedParallel, MayAlias, Strides,
               RuntimeMemoryCheckThreshold, VectorizationFactor,
               VectorizationInterleave>>

infoVars == <<CanVecMem, Report, MultipleReports, NumLoads, NumStores,
              MaxSafeDepDistBytes, PtrRtCheck>>

localVars == <<Seen, NumReads, NumReadWrites, NeedRTCheck, CanDoRT,
               NumComparisons>>

accessVars == <<Accesses, AST, ReadOnlyPtr, CheckDeps, DepCands,
                IsRTCheckNeeded>>

depVars == <<InstMap, DepMaxSafeDepDistBytes, ShouldRetryWithRuntimeCheck,
             PairQueue>>

clientVars == <<Starts, Ends, Emitted, RuntimeCheckRet>>

strideVars == <<StridePtr, StrideRet>>

passVars == <<LoopAccessInfoMap, GetInfoRet, Constructed>>

forwardVars == <<ForwardArgs, ForwardRet>>

\* What a run of the LoopAccessInfo constructor leaves alone.
outerVars == <<clientVars, strideVars, passVars, forwardVars>>

vars == <<inputVars, pc, infoVars, localVars, accessVars, depVars, outerVars>>

\* MemAccessInfo: PointerIntPair<Value *, 1, bool>.
MemAccessInfo(Ptr, IsWrite) == [ptr |-> Ptr, write |-> IsWrite]

(***************************************************************************)
(* MemoryDepChecker.                                                       *)
(***************************************************************************)
\* The for loop of lines 686-692; its value is MaxVFWithoutSLForwardIssues
\* when the loop is left.
RECURSIVE ScanVectorFactors(_, _, _, _)
ScanVectorFactors(vf, MaxVF, Distance, NumCycles) ==
  IF ~(vf <= MaxVF) THEN MaxVF
  ELSE IF Distance % vf # 0 /\ Distance \div vf < NumCycles THEN vf \div 2
  ELSE ScanVectorFactors(ToUnsigned(vf * 2), MaxVF, Distance, NumCycles)

\* Whether the for loop of lines 686-692 comes to evaluate Distance % vf
\* with vf = 0: `vf *= 2` wraps to 0 once vf has reached half the range of
\* `unsigned`, and 0 <= MaxVF holds.
RECURSIVE ScanDividesByZero(_, _, _, _)
ScanDividesByZero(vf, MaxVF, Distance, NumCycles) ==
  IF ~(vf <= MaxVF) THEN FALSE
  ELSE IF vf = 0 THEN TRUE
  ELSE IF Distance % vf # 0 /\ Distance \div vf < NumCycles THEN FALSE
  ELSE ScanDividesByZero(ToUnsigned(vf * 2), MaxVF, Distance, NumCycles)

\* Lines 679-692: whether the call with these arguments divides by zero.
ForwardDividesByZero(Distance, TypeByteSize, MaxSafe) ==
  ScanDividesByZero(
    ToUnsigned(2 * TypeByteSize),
    IF MaxSafe < ToUnsigned(MaxVectorWidth * TypeByteSize)
    THEN MaxSafe ELSE ToUnsigned(MaxVectorWidth * TypeByteSize),
    Distance, ToUnsigned(8 * TypeByteSize))

\* Lines 668-705 with the test of line 694 against TypeByteSize, not twice
\* TypeByteSize.
couldPreventStoreLoadForward_OneElement(Distance, TypeByteSize, MaxSafe) ==
  LET NumCyclesForStoreLoadThroughMemory == ToUnsigned(8 * TypeByteSize)
      Widest == ToUnsigned(MaxVectorWidth * TypeByteSize)
      MaxVF0 == IF MaxSafe < Widest THEN MaxSafe ELSE Widest
      MaxVFWithoutSLForwardIssues ==
        ScanVectorFactors(ToUnsigned(2 * TypeByteSize), MaxVF0, Distance,
                          NumCyclesForStoreLoadThroughMemory)
  IN  IF MaxVFWithoutSLForwardIssues < ToUnsigned(TypeByteSize)
      THEN [prevent |-> TRUE, max |-> MaxSafe]
      ELSE IF MaxVFWithoutSLForwardIssues < MaxSafe
              /\ MaxVFWithoutSLForwardIssues # Widest
      THEN [prevent |-> FALSE, max |-> MaxVFWithoutSLForwardIssues]
      ELSE [prevent |-> FALSE, max |-> MaxSafe]

\* Lines 668-705.  prevent: the value returned; max: MaxSafeDepDistBytes
\* after the call.
couldPreventStoreLoadForward(Distance, TypeByteSize, MaxSafe) ==
  LET NumCyclesForStoreLoadThroughMemory == ToUnsigned(8 * TypeByteSize)
      Widest == ToUnsigned(MaxVectorWidth * TypeByteSize)
      MaxVF0 == IF MaxSafe < Widest THEN MaxSafe ELSE Widest
      MaxVFWithoutSLForwardIssues ==
        ScanVectorFactors(ToUnsigned(2 * TypeByteSize), MaxVF0, Distance,
                          NumCyclesForStoreLoadThroughMemory)
  IN  IF MaxVFWithoutSLForwardIssues < ToUnsigned(2 * TypeByteSize)
      THEN [prevent |-> TRUE, max |-> MaxSafe]
      ELSE IF MaxVFWithoutSLForwardIssues < MaxSafe
              /\ MaxVFWithoutSLForwardIssues # Widest
      THEN [prevent |-> FALSE, max |-> MaxVFWithoutSLForwardIssues]
      ELSE [prevent |-> FALSE, max |-> MaxSafe]

DepResult(dep, max, retry) == [dep |-> dep, max |-> max, retry |-> retry]

\* Lines 823-824 as a plain assignment of the distance.
RecordDistance_Assigns(Distance, MaxSafe) == Distance

\* Lines 823-824.
RecordDistance(Distance, MaxSafe) ==
  IF Distance < MaxSafe THEN Distance ELSE MaxSafe

\* Lines 826-834: the outcome of a backward true dependence, fwd being what
\* couldPreventStoreLoadForward answered.
DepResultOf(fwd) == DepResult(fwd.prevent, fwd.max, FALSE)

\* Lines 776-783: the outcome of a forward true dependence.
NegativeDependence(fwd, ATy, BTy) ==
  IF fwd.prevent THEN DepResult(TRUE, fwd.max, FALSE)
  ELSE DepResult(ATy # BTy, fwd.max, FALSE)

\* Lines 807-810.
ForcedFactor == IF VectorizationFactor # 0 THEN VectorizationFactor ELSE 1

ForcedUnroll == IF VectorizationInterleave # 0 THEN VectorizationInterleave ELSE 1

\* Lines 771-834 with the first test of line 815 made inclusive: a distance
\* of exactly twice the size is refused.
DependenceAtDistance_AboveTwiceTheSize(Val, ATy, BTy, AIsWrite, BIsWrite, TypeByteSize, MaxSafe) ==
  IF Val < 0
  THEN \* lines 775-784
       IF ~(AIsWrite /\ ~BIsWrite) THEN DepResult(FALSE, MaxSafe, FALSE)
       ELSE NegativeDependence(
              couldPreventStoreLoadForward(ToUnsigned(Abs(Val)), TypeByteSize,
                                           MaxSafe),
              ATy, BTy)
  ELSE IF Val = 0
  THEN \* lines 788-793
       DepResult(ATy # BTy, MaxSafe, FALSE)
  ELSE IF ATy # BTy
  THEN \* lines 798-802
       DepResult(FALSE, MaxSafe, FALSE)
  ELSE IF ToUnsigned(Val) <= ToUnsigned(2 * TypeByteSize)
          \/ ToUnsigned(2 * TypeByteSize) > MaxSafe
          \/ ToUnsigned(Val) < ToUnsigned(TypeByteSize * ForcedUnroll * ForcedFactor)
  THEN \* lines 815-821
       DepResult(TRUE, MaxSafe, FALSE)
  ELSE IF ~AIsWrite /\ BIsWrite
  THEN \* lines 826-829
       DepResultOf(couldPreventStoreLoadForward(
                     ToUnsigned(Val), TypeByteSize,
                     RecordDistance(ToUnsigned(Val), MaxSafe)))
  ELSE DepResult(FALSE, RecordDistance(ToUnsigned(Val), MaxSafe), FALSE)

\* Lines 771-834: the pair, in the order source then sink, is Val bytes
\* apart.
DependenceAtDistance(Val, ATy, BTy, AIsWrite, BIsWrite, TypeByteSize, MaxSafe) ==
  IF Val < 0
  THEN \* lines 775-784
       IF ~(AIsWrite /\ ~BIsWrite) THEN DepResult(FALSE, MaxSafe, FALSE)
       ELSE NegativeDependence(
              couldPreventStoreLoadForward(ToUnsigned(Abs(Val)), TypeByteSize,
                                           MaxSafe),
              ATy, BTy)
  ELSE IF Val = 0
  THEN \* lines 788-793
       DepResult(ATy # BTy, MaxSafe, FALSE)
  ELSE IF ATy # BTy
  THEN \* lines 798-802
       DepResult(FALSE, MaxSafe, FALSE)
  ELSE IF ToUnsigned(Val) < ToUnsigned(2 * TypeByteSize)
          \/ ToUnsigned(2 * TypeByteSize) > MaxSafe
          \/ ToUnsigned(Val) < ToUnsigned(TypeByteSize * ForcedUnroll * ForcedFactor)
  THEN \* lines 815-821
       DepResult(TRUE, MaxSafe, FALSE)
  ELSE IF ~AIsWrite /\ BIsWrite
  THEN \* lines 826-829
       DepResultOf(couldPreventStoreLoadForward(
                     ToUnsigned(Val), TypeByteSize,
                     RecordDistance(ToUnsigned(Val), MaxSafe)))
  ELSE DepResult(FALSE, RecordDistance(ToUnsigned(Val), MaxSafe), FALSE)

\* Lines 747-771 with the test of the distance, lines 762-767, moved before
\* the test of the strides, lines 757-760.
DependenceOfStrided_DistanceFirst(APtr, BPtr, AIsWrite, BIsWrite, StrideAPtr, StrideBPtr, Dist, MaxSafe) ==
  IF ~Dist.const THEN DepResult(TRUE, MaxSafe, TRUE)
  ELSE IF StrideAPtr = 0 \/ StrideBPtr = 0 \/ StrideAPtr # StrideBPtr
  THEN DepResult(TRUE, MaxSafe, FALSE)
  ELSE DependenceAtDistance(Dist.val, getElementType(APtr), getElementType(BPtr),
                            AIsWrite, BIsWrite,
                            ToUnsigned(getTypeAllocSize(getElementType(APtr))),
                            MaxSafe)

\* Lines 747-771 with the test of lines 757-760 reduced to the comparison of
\* the two strides.
DependenceOfStrided_EqualStridesOnly(APtr, BPtr, AIsWrite, BIsWrite, StrideAPtr, StrideBPtr, Dist, MaxSafe) ==
  IF StrideAPtr # StrideBPtr
  THEN DepResult(TRUE, MaxSafe, FALSE)
  ELSE IF ~Dist.const THEN DepResult(TRUE, MaxSafe, TRUE)
  ELSE DependenceAtDistance(Dist.val, getElementType(APtr), getElementType(BPtr),
                            AIsWrite, BIsWrite,
                            ToUnsigned(getTypeAllocSize(getElementType(APtr))),
                            MaxSafe)

\* Lines 747-771: the pair after the inversion of lines 737-745.
DependenceOfStrided(APtr, BPtr, AIsWrite, BIsWrite, StrideAPtr, StrideBPtr, Dist, MaxSafe) ==
  IF StrideAPtr = 0 \/ StrideBPtr = 0 \/ StrideAPtr # StrideBPtr
  THEN DepResult(TRUE, MaxSafe, FALSE)
  ELSE IF ~Dist.const THEN DepResult(TRUE, MaxSafe, TRUE)
  ELSE DependenceAtDistance(Dist.val, getElementType(APtr), getElementType(BPtr),
                            AIsWrite, BIsWrite,
                            ToUnsigned(getTypeAllocSize(getElementType(APtr))),
                            MaxSafe)

\* Lines 726-747: a negative induction step inverts source and sink.
DependenceOfPair(A, B, StrideA, StrideB, MaxSafe) ==
  IF StrideA < 0
  THEN DependenceOfStrided(B.ptr, A.ptr, B.write, A.write, StrideB, StrideA,
                           getMinusSCEV(replaceSymbolicStrideSCEV(Strides, A.ptr),
                                        replaceSymbolicStrideSCEV(Strides, B.ptr)),
                           MaxSafe)
  ELSE DependenceOfStrided(A.ptr, B.ptr, A.write, B.write, StrideA, StrideB,
                           getMinusSCEV(replaceSymbolicStrideSCEV(Strides, B.ptr),
                                        replaceSymbolicStrideSCEV(Strides, A.ptr)),
                           MaxSafe)

\* Lines 707-835.  dep: the value returned (TRUE: a possible dependence);
\* max: MaxSafeDepDistBytes after the call; retry: whether the call set
\* ShouldRetryWithRuntimeCheck.
isDependent(A, AIdx, B, BIdx, MaxSafe) ==
  IF ~A.write /\ ~B.write THEN DepResult(FALSE, MaxSafe, FALSE)
  ELSE IF getPointerAddressSpace(A.ptr) # getPointerAddressSpace(B.ptr)
  THEN DepResult(TRUE, MaxSafe, FALSE)
  ELSE DependenceOfPair(A, B, isStridedPtr(Strides, A.ptr),
                        isStridedPtr(Strides, B.ptr), MaxSafe)

(***************************************************************************)
(* Containers of the support library.                                      *)
(***************************************************************************)
\* SetVector::insert: a set that keeps insertion order.
SetVectorInsert(S, x) == IF x \in Range(S) THEN S ELSE Append(S, x)

\* AliasSetTracker::add.  The tracker is the list of its alias sets, each
\* the list of its pointers in the order they were added; the alias oracle
\* puts two pointers in one set when MayAlias holds or they share their
\* underlying object.
AliasSetTrackerAdd(Tracker, Ptr) ==
  LET Aliases(Q) == MayAlias \/ GetUnderlyingObjects(Q) = GetUnderlyingObjects(Ptr)
      Known == \E i \in DOMAIN Tracker : Ptr \in Range(Tracker[i])
      Home == {i \in DOMAIN Tracker : Aliases(Tracker[i][1])}
  IN  IF Known THEN Tracker
      ELSE IF Home # {}
      THEN LET i == CHOOSE j \in Home : TRUE
           IN  [Tracker EXCEPT ![i] = Append(@, Ptr)]
      ELSE Append(Tracker, <<Ptr>>)

\* EquivalenceClasses: the set of the classes, each the list of its members
\* from its leader on.
ECInsert(EC, V) ==
  IF \E c \in EC : V \in Range(c) THEN EC ELSE EC \cup {<<V>>}

ECClassOf(EC, V) == CHOOSE c \in EC : V \in Range(c)

\* getLeaderValue
ECLeaderValue(EC, V) == Head(ECClassOf(EC, V))

\* unionSets(V1, V2): the list of V2's class is spliced onto the end of the
\* list of V1's class, whose leader leads the union.
ECUnionSets(EC, V1, V2) ==
  LET EC2 == ECInsert(ECInsert(EC, V1), V2)
      L1 == ECClassOf(EC2, V1)
      L2 == ECClassOf(EC2, V2)
  IN  IF L1 = L2 THEN EC2 ELSE (EC2 \ {L1, L2}) \cup {L1 \o L2}

(***************************************************************************)
(* AccessAnalysis.                                                         *)
(***************************************************************************)
NoAccess == [ptr |-> "none", write |-> FALSE]

\* The accesses of the access set S that go through the pointers of the
\* alias set AS, in the order the two loops of lines 397 and 402 meet them.
RECURSIVE AccessesOfAliasSet(_, _)
AccessesOfAliasSet(AS, S) ==
  IF AS = <<>> THEN <<>>
  ELSE LET ThroughPtr(AC) == AC.ptr = Head(AS)
       IN  SelectSeq(S, ThroughPtr) \o AccessesOfAliasSet(Tail(AS), S)

\* Lines 406-456: the body of the loops of processMemAccesses for access AC.
\* st holds SetHasWrite, ObjToLastAccess and DeferredAccesses of the alias
\* set and the members CheckDeps, DepCands, IsRTCheckNeeded.
ProcessAccess(st, AC, UseDeferred, ReadOnly) ==
  LET Ptr == AC.ptr
      IsWrite == AC.write
      IsReadOnlyPtr == Ptr \in ReadOnly /\ ~IsWrite
      Inserted == ECInsert(st.DepCands, AC)
      NeedsCheck == (IsWrite \/ IsReadOnlyPtr) /\ st.SetHasWrite
      UnderlyingObj == GetUnderlyingObjects(Ptr)
      Prev == st.ObjToLastAccess[UnderlyingObj]
  IN  IF UseDeferred /\ ~IsReadOnlyPtr THEN st
      ELSE IF ~UseDeferred /\ IsReadOnlyPtr
      THEN [st EXCEPT !.DepCands = Inserted,
                      !.DeferredAccesses = SetVectorInsert(@, AC)]
      ELSE [st EXCEPT
              !.CheckDeps = IF NeedsCheck THEN @ \cup {AC} ELSE @,
              !.IsRTCheckNeeded = IF NeedsCheck THEN TRUE ELSE @,
              !.SetHasWrite = IF IsWrite THEN TRUE ELSE @,
              !.DepCands = IF Prev # NoAccess
                           THEN ECUnionSets(Inserted, AC, Prev)
                           ELSE Inserted,
              !.ObjToLastAccess = [@ EXCEPT ![UnderlyingObj] = AC]]

RECURSIVE ProcessAccesses(_, _, _, _)
ProcessAccesses(st, Visits, UseDeferred, ReadOnly) ==
  IF Visits = <<>> THEN st
  ELSE ProcessAccesses(ProcessAccess(st, Head(Visits), UseDeferred, ReadOnly),
                       Tail(Visits), UseDeferred, ReadOnly)

\* Lines 377-460: one alias set, walked twice.
ProcessAliasSet(st, AS, S, ReadOnly) ==
  LET Fresh == [st EXCEPT !.SetHasWrite = FALSE,
                          !.ObjToLastAccess = [o \in Objects |-> NoAccess],
                          !.DeferredAccesses = <<>>]
      First == ProcessAccesses(Fresh, AccessesOfAliasSet(AS, S), FALSE, ReadOnly)
  IN  ProcessAccesses(First, AccessesOfAliasSet(AS, First.DeferredAccesses),
                      TRUE, ReadOnly)

RECURSIVE ProcessAliasSets(_, _, _, _)
ProcessAliasSets(st, Tracker, S, ReadOnly) ==
  IF Tracker = <<>> THEN st
  ELSE ProcessAliasSets(ProcessAliasSet(st, Head(Tracker), S, ReadOnly),
                        Tail(Tracker), S, ReadOnly)

\* Lines 358-461.
processMemAccesses(Tracker, S, ReadOnly, Deps, Cands, RTNeeded) ==
  ProcessAliasSets([SetHasWrite |-> FALSE,
                    ObjToLastAccess |-> [o \in Objects |-> NoAccess],
                    DeferredAccesses |-> <<>>,
                    CheckDeps |-> Deps, DepCands |-> Cands,
                    IsRTCheckNeeded |-> RTNeeded],
                   Tracker, S, ReadOnly)

(***************************************************************************)
(* The runtime-check descriptor and its builder.                           *)
(***************************************************************************)
\* RuntimePointerCheck::insert, lines 106-121.  Start is the start of the
\* recurrence, End the recurrence at the backedge-taken count.
RtCheckEntry(Ptr, WritePtr, DepSetId, ASId) ==
  LET Sc == replaceSymbolicStrideSCEV(Strides, Ptr)
  IN  [Ptr |-> Ptr,
       Start |-> [base |-> Sc.base, off |-> Sc.off],
       End |-> [base |-> Sc.base, off |-> Sc.off, step |-> Sc.step],
       IsWritePtr |-> WritePtr,
       DependencySetId |-> DepSetId,
       AliasSetId |-> ASId]

\* Lines 123-138 without the test of lines 129-131.
needsChecking_IgnoresDependenceSet(Ptrs, I, J) ==
  IF ~Ptrs[I].IsWritePtr /\ ~Ptrs[J].IsWritePtr THEN FALSE
  ELSE IF Ptrs[I].AliasSetId # Ptrs[J].AliasSetId THEN FALSE
  ELSE TRUE

\* RuntimePointerCheck::needsChecking, lines 123-138.
needsChecking(Ptrs, I, J) ==
  IF ~Ptrs[I].IsWritePtr /\ ~Ptrs[J].IsWritePtr THEN FALSE
  ELSE IF Ptrs[I].DependencySetId = Ptrs[J].DependencySetId THEN FALSE
  ELSE IF Ptrs[I].AliasSetId # Ptrs[J].AliasSetId THEN FALSE
  ELSE TRUE

\* RuntimePointerCheck::reset.
ResetRtCheck == [Need |-> FALSE, Pointers |-> <<>>]

\* Lines 282-314 with every pointer given a dependence set of its own, as
\* when no dependence is to be checked.
CheckPointer_OwnDependenceSet(st, Ptr, ASId, IsDepCheckNeeded, ShouldCheckStride) ==
  LET IsWrite == MemAccessInfo(Ptr, TRUE) \in Range(Accesses)
      Counted == [st EXCEPT
                    !.NumWritePtrChecks = IF IsWrite THEN @ + 1 ELSE @,
                    !.NumReadPtrChecks = IF IsWrite THEN @ ELSE @ + 1]
  IN  IF hasComputableBounds(Strides, Ptr)
         /\ (~ShouldCheckStride \/ isStridedPtr(Strides, Ptr) = 1)
      THEN [Counted EXCEPT
              !.RunningDepId = @ + 1,
              !.Pointers = Append(@, RtCheckEntry(Ptr, IsWrite,
                                                  Counted.RunningDepId, ASId))]
      ELSE [Counted EXCEPT !.CanDoRT = FALSE]

\* Lines 282-314 with the test of line 292 satisfied by any stride that is
\* not zero.
CheckPointer_AnyStride(st, Ptr, ASId, IsDepCheckNeeded, ShouldCheckStride) ==
  LET IsWrite == MemAccessInfo(Ptr, TRUE) \in Range(Accesses)
      Access == MemAccessInfo(Ptr, IsWrite)
      Counted == [st EXCEPT
                    !.NumWritePtrChecks = IF IsWrite THEN @ + 1 ELSE @,
                    !.NumReadPtrChecks = IF IsWrite THEN @ ELSE @ + 1]
      Leader == ECLeaderValue(DepCands, Access).ptr
      LeaderIsNew == Counted.DepSetId[Leader] = 0
      DepId == IF IsDepCheckNeeded
               THEN IF LeaderIsNew THEN Counted.RunningDepId
                    ELSE Counted.DepSetId[Leader]
               ELSE Counted.RunningDepId
  IN  IF hasComputableBounds(Strides, Ptr)
         /\ (~ShouldCheckStride \/ isStridedPtr(Strides, Ptr) # 0)
      THEN [Counted EXCEPT
              !.DepSetId = IF IsDepCheckNeeded /\ LeaderIsNew
                           THEN [@ EXCEPT ![Leader] = Counted.RunningDepId]
                           ELSE @,
              !.RunningDepId = IF IsDepCheckNeeded /\ ~LeaderIsNew
                               THEN @ ELSE @ + 1,
              !.Pointers = Append(@, RtCheckEntry(Ptr, IsWrite, DepId, ASId))]
      ELSE [Counted EXCEPT !.CanDoRT = FALSE]

\* Lines 282-314: the body of the loop over the pointers of one alias set.
CheckPointer(st, Ptr, ASId, IsDepCheckNeeded, ShouldCheckStride) ==
  LET IsWrite == MemAccessInfo(Ptr, TRUE) \in Range(Accesses)
      Access == MemAccessInfo(Ptr, IsWrite)
      Counted == [st EXCEPT
                    !.NumWritePtrChecks = IF IsWrite THEN @ + 1 ELSE @,
                    !.NumReadPtrChecks = IF IsWrite THEN @ ELSE @ + 1]
      Leader == ECLeaderValue(DepCands, Access).ptr
      LeaderIsNew == Counted.DepSetId[Leader] = 0
      DepId == IF IsDepCheckNeeded
               THEN IF LeaderIsNew THEN Counted.RunningDepId
                    ELSE Counted.DepSetId[Leader]
               ELSE Counted.RunningDepId
  IN  IF hasComputableBounds(Strides, Ptr)
         /\ (~ShouldCheckStride \/ isStridedPtr(Strides, Ptr) = 1)
      THEN [Counted EXCEPT
              !.DepSetId = IF IsDepCheckNeeded /\ LeaderIsNew
                           THEN [@ EXCEPT ![Leader] = Counted.RunningDepId]
                           ELSE @,
              !.RunningDepId = IF IsDepCheckNeeded /\ ~LeaderIsNew
                               THEN @ ELSE @ + 1,
              !.Pointers = Append(@, RtCheckEntry(Ptr, IsWrite, DepId, ASId))]
      ELSE [Counted EXCEPT !.CanDoRT = FALSE]

RECURSIVE CheckPointers(_, _, _, _, _)
CheckPointers(st, AS, ASId, IsDepCheckNeeded, ShouldCheckStride) ==
  IF AS = <<>> THEN st
  ELSE CheckPointers(
         CheckPointer(st, Head(AS), ASId, IsDepCheckNeeded, ShouldCheckStride),
         Tail(AS), ASId, IsDepCheckNeeded, ShouldCheckStride)

\* Lines 317-322 counting a comparison for every write against every read
\* only, none between two writes.
ComparisonsOfAliasSet_WritesAgainstReads(st, IsDepCheckNeeded) ==
  IF IsDepCheckNeeded /\ st.CanDoRT /\ st.RunningDepId = 2
  THEN 0
  ELSE ToUnsigned(st.NumWritePtrChecks * st.NumReadPtrChecks)

\* Lines 317-322: the comparisons one alias set adds to NumComparisons.
ComparisonsOfAliasSet(st, IsDepCheckNeeded) ==
  IF IsDepCheckNeeded /\ st.CanDoRT /\ st.RunningDepId = 2
  THEN 0
  ELSE ToUnsigned(st.NumWritePtrChecks
                  * (st.NumReadPtrChecks + st.NumWritePtrChecks - 1))

\* Line 322.
AddComparisons(st, IsDepCheckNeeded) ==
  [st EXCEPT !.NumComparisons =
     ToUnsigned(@ + ComparisonsOfAliasSet(st, IsDepCheckNeeded))]

\* Lines 272-325: the loop over the alias sets, from alias set ASId on.
RECURSIVE CheckAliasSets(_, _, _, _, _)
CheckAliasSets(st, Tracker, ASId, IsDepCheckNeeded, ShouldCheckStride) ==
  IF Tracker = <<>> THEN st
  ELSE LET Fresh == [st EXCEPT !.NumReadPtrChecks = 0,
                               !.NumWritePtrChecks = 0,
                               !.RunningDepId = 1,
                               !.DepSetId = [p \in PtrNames |-> 0]]
       IN  CheckAliasSets(
             AddComparisons(CheckPointers(Fresh, Head(Tracker), ASId,
                                          IsDepCheckNeeded, ShouldCheckStride),
                            IsDepCheckNeeded),
             Tail(Tracker), ASId + 1, IsDepCheckNeeded, ShouldCheckStride)

\* Lines 332-353 with the address space of entry i read for both sides of
\* the comparison of line 347.
DifferentAddressSpaces_ComparesSelf(Ptrs) ==
  \E i \in DOMAIN Ptrs : \E j \in DOMAIN Ptrs :
    /\ i < j
    /\ Ptrs[i].DependencySetId # Ptrs[j].DependencySetId
    /\ Ptrs[i].AliasSetId = Ptrs[j].AliasSetId
    /\ getPointerAddressSpace(Ptrs[i].Ptr) # getPointerAddressSpace(Ptrs[i].Ptr)

\* Lines 332-353: some pair of descriptor entries of different dependence
\* sets and one alias set has its pointers in different address spaces.
DifferentAddressSpaces(Ptrs) ==
  \E i \in DOMAIN Ptrs : \E j \in DOMAIN Ptrs :
    /\ i < j
    /\ Ptrs[i].DependencySetId # Ptrs[j].DependencySetId
    /\ Ptrs[i].AliasSetId = Ptrs[j].AliasSetId
    /\ getPointerAddressSpace(Ptrs[i].Ptr) # getPointerAddressSpace(Ptrs[j].Ptr)

\* Lines 332-355: the value returned and the reference arguments, Walked
\* being what the loop over the alias sets left.
CheckedAddressSpaces(Walked) ==
  [ret |-> IF DifferentAddressSpaces(Walked.Pointers) THEN FALSE
           ELSE Walked.CanDoRT,
   NumComparisons |-> Walked.NumComparisons,
   Pointers |-> Walked.Pointers]

\* Lines 258-356.  ret: the value returned; NumComparisons and Pointers:
\* the two reference arguments after the call.  Deps is the member
\* CheckDeps and RtPointers is RtCheck.Pointers when the call is made.
canCheckPtrAtRT(Deps, RtPointers, ShouldCheckStride) ==
  CheckedAddressSpaces(
    CheckAliasSets([CanDoRT |-> TRUE, NumComparisons |-> 0,
                    Pointers |-> RtPointers,
                    NumReadPtrChecks |-> 0, NumWritePtrChecks |-> 0,
                    RunningDepId |-> 1,
                    DepSetId |-> [p \in PtrNames |-> 0]],
                   AST, 1, Deps # {}, ShouldCheckStride))

(***************************************************************************)
(* The loops that are analysed.                                            *)
(***************************************************************************)
\* A memory instruction of the loop body.  "call" is a call of a recognised
\* intrinsic that may read memory, "read" any other instruction that may
\* read memory and is no load, "write" an instruction that may write memory
\* and is no store.
Load(Ptr) == [kind |-> "load", ptr |-> Ptr, simple |-> TRUE]

Store(Ptr) == [kind |-> "store", ptr |-> Ptr, simple |-> TRUE]

NonSimple(I) == [I EXCEPT !.simple = FALSE]

IntrinsicCall == [kind |-> "call", ptr |-> "none", simple |-> TRUE]

OtherRead == [kind |-> "read", ptr |-> "none", simple |-> TRUE]

OtherWrite == [kind |-> "write", ptr |-> "none", simple |-> TRUE]

LoadsAndStores(Ptrs) == {Load(p) : p \in Ptrs} \cup {Store(p) : p \in Ptrs}

Options(Threshold, Factor, Interleave) ==
  [threshold |-> Threshold, factor |-> Factor, interleave |-> Interleave]

DefaultOptions == Options(DefaultRuntimeMemoryCheckThreshold, 0, 0)

\* Families of loops: the instructions a body is made of, the answers of
\* the alias oracle and the option settings they are analysed under.
LoopFamilies ==
  { \* volatile and atomic accesses, calls, a store to an invariant address
    [instrs |-> LoadsAndStores({"a0", "au"})
                  \cup {NonSimple(i) : i \in LoadsAndStores({"a0", "au"})}
                  \cup {IntrinsicCall, OtherRead, OtherWrite},
     alias |-> {TRUE}, options |-> {DefaultOptions}],
    \* constant distances within one array
    [instrs |-> LoadsAndStores({"am8", "am3", "a0"}),
     alias |-> {TRUE}, options |-> {DefaultOptions}],
    [instrs |-> LoadsAndStores({"a0", "a1", "a2"}),
     alias |-> {TRUE}, options |-> {DefaultOptions}],
    [instrs |-> LoadsAndStores({"d0", "d1", "d2"}),
     alias |-> {TRUE}, options |-> {DefaultOptions}],
    \* two arrays that may or may not alias
    [instrs |-> LoadsAndStores({"a0", "b0", "b1"}),
     alias |-> {TRUE, FALSE},
     options |-> {DefaultOptions, Options(1, 0, 0)}],
    \* an array in another address space
    [instrs |-> LoadsAndStores({"a0", "b0", "c0"}),
     alias |-> {TRUE}, options |-> {DefaultOptions}],
    \* a distance that is no constant, an indirect index
    [instrs |-> LoadsAndStores({"a0", "an", "ax"}),
     alias |-> {TRUE}, options |-> {DefaultOptions, Options(1, 0, 0)}],
    \* a loop that counts down
    [instrs |-> LoadsAndStores({"r0", "r1", "r2"}),
     alias |-> {TRUE}, options |-> {DefaultOptions}],
    \* a forced vectorization factor and interleave count
    [instrs |-> LoadsAndStores({"a0", "a2", "a6"}),
     alias |-> {TRUE}, options |-> {DefaultOptions, Options(8, 2, 2)}],
    \* one array read and written as i32 and as float
    [instrs |-> LoadsAndStores({"a0", "f1", "f2"}),
     alias |-> {TRUE}, options |-> {DefaultOptions}],
    \* distances that are no constants between pointers of stride -1 and 2
    \* and with a pointer in another address space
    [instrs |-> {Store("a0"), Store("an"), Store("ca"), Store("r0"),
                 Store("rn"), Store("e0"), Store("en"), Load("an")},
     alias |-> {TRUE}, options |-> {DefaultOptions}],
    \* loads of stride 2, of a recurrence over the loop around, of an
    \* indirect index
    [instrs |-> {Load("e0"), Store("e0"), Load("ao"), Store("a0"),
                 Load("ax"), Store("ax")},
     alias |-> {TRUE}, options |-> {DefaultOptions}],
    \* an indirect index into an array that aliases nothing else
    [instrs |-> {Store("ux"), Store("a0"), Load("a2")},
     alias |-> {FALSE}, options |-> {DefaultOptions}] }

\* All bodies of at most n instructions drawn from S.
BodiesUpTo(S, n) == UNION {[1..k -> S] : k \in 0..n}

\* Longer bodies of the scenarios that need them.
\*   a[i] = b[i]; b[i+1] = a[i]  with a[i] loaded again for the second store
ScenarioS3Reload == <<Load("b0"), Store("a0"), Load("a0"), Store("b1")>>

\*   three stores and a load through four pointers that may alias
ScenarioManyChecks == <<Store("a0"), Store("b0"), Store("b1"), Load("a1")>>

\*   a[i] = ..; .. = a[i+2] on 4-byte and d[i] = ..; .. = d[i+2] on 8-byte
\*   elements
ScenarioTwoSizes == <<Store("a0"), Load("a2"), Store("d0"), Load("d2")>>

\*   a[i] = a[i+n] beside u[x[i]] += .. , and the same beside a[x[i]] += ..
ScenarioIndirectUpdate(Ptr) ==
  <<Store("a0"), Load("an"), Load(Ptr), Store(Ptr)>>

ScenarioLoops ==
  { [body |-> ScenarioS3Reload, alias |-> TRUE, options |-> DefaultOptions],
    [body |-> ScenarioManyChecks, alias |-> TRUE, options |-> DefaultOptions],
    [body |-> ScenarioTwoSizes, alias |-> TRUE, options |-> DefaultOptions],
    [body |-> ScenarioIndirectUpdate("ux"), alias |-> FALSE,
     options |-> DefaultOptions],
    [body |-> ScenarioIndirectUpdate("ux"), alias |-> TRUE,
     options |-> DefaultOptions],
    [body |-> ScenarioIndirectUpdate("ax"), alias |-> TRUE,
     options |-> DefaultOptions] }

Loops ==
  ScenarioLoops \cup
  UNION { [body : BodiesUpTo(f.instrs, MaxInstrs), alias : f.alias,
           options : f.options] : f \in LoopFamilies }

(***************************************************************************)
(* Initial state: the LoopAccessInfo constructor's member initializers,    *)
(* lines 1300-1306, for any of the loops.                                  *)
(***************************************************************************)
ConstructorEntry ==
  /\ pc = "canAnalyzeLoop"
  /\ CanVecMem = FALSE
  /\ Report = NoReport
  /\ MultipleReports = FALSE
  /\ NumLoads = 0
  /\ NumStores = 0
  /\ MaxSafeDepDistBytes = UINT_MAX
  /\ PtrRtCheck = [Need |-> FALSE, Pointers |-> <<>>]
  /\ Seen = {}
  /\ NumReads = 0
  /\ NumReadWrites = 0
  /\ NeedRTCheck = FALSE
  /\ CanDoRT = FALSE
  /\ NumComparisons = 0
  /\ Accesses = <<>>
  /\ AST = <<>>
  /\ ReadOnlyPtr = {}
  /\ CheckDeps = {}
  /\ DepCands = {}
  /\ IsRTCheckNeeded = FALSE
  /\ InstMap = <<>>
  /\ DepMaxSafeDepDistBytes = Uninitialized
  /\ ShouldRetryWithRuntimeCheck = FALSE
  /\ PairQueue = <<>>

\* The loop l is handed to the constructor.
ConstructorArguments(l) ==
  /\ Instrs = l.body
  /\ MayAlias = l.alias
  /\ RuntimeMemoryCheckThreshold = l.options.threshold
  /\ VectorizationFactor = l.options.factor
  /\ VectorizationInterleave = l.options.interleave
  /\ Strides = {}

\* addRuntimeCheck has not been called.
NoRuntimeCheck ==
  /\ Starts = <<>>
  /\ Ends = <<>>
  /\ Emitted = <<>>
  /\ RuntimeCheckRet = [called |-> FALSE, FirstInst |-> 0, IsNull |-> TRUE,
                        Check |-> FALSE]

\* No call of isStridedPtr is looked at on its own.
NoStrideCall ==
  /\ StridePtr = Pointers["a0"]
  /\ StrideRet = [called |-> FALSE, value |-> 0]

\* No call of couldPreventStoreLoadForward is looked at on its own.
NoForwardCall ==
  /\ ForwardArgs = [Distance |-> 0, TypeByteSize |-> 1,
                    MaxSafeDepDistBytes |-> UINT_MAX]
  /\ ForwardRet = [called |-> FALSE, returned |-> FALSE, value |-> FALSE,
                   MaxSafeDepDistBytes |-> UINT_MAX]

\* The pass has not been asked for anything.
NoPass ==
  /\ LoopAccessInfoMap = <<>>
  /\ GetInfoRet = [called |-> FALSE, L |-> "none", LAI |-> 0,
                   StridesChanged |-> FALSE]
  /\ Constructed = <<>>

Init ==
  /\ \E l \in Loops : ConstructorArguments(l)
  /\ IsAnnotatedParallel \in BOOLEAN
  /\ ConstructorEntry
  /\ NoRuntimeCheck
  /\ NoStrideCall
  /\ NoPass
  /\ NoForwardCall

(***************************************************************************)
(* LoopAccessInfo::emitAnalysis, lines 1195-1198.  MultipleReports records *)
(* that the assertion "Multiple reports generated" failed.                 *)
(***************************************************************************)
emitAnalysis(Message) ==
  /\ MultipleReports' = (MultipleReports \/ Report # NoReport)
  /\ Report' = Message

NoAnalysis == UNCHANGED <<Report, MultipleReports>>

(***************************************************************************)
(* LoopAccessInfo::canAnalyzeLoop, lines 876-923.  The loop inspector and  *)
(* the scalar-evolution oracle answer the five questions.                  *)
(***************************************************************************)
ShapeReport(Innermost, BackEdges, HasExitingBlock, ExitingIsLatch, HasExitCount) ==
  IF ~Innermost THEN "loop is not the innermost loop"
  ELSE IF BackEdges # 1 THEN "loop control flow is not understood by analyzer"
  ELSE IF ~HasExitingBlock THEN "loop control flow is not understood by analyzer"
  ELSE IF ~ExitingIsLatch THEN "loop control flow is not understood by analyzer"
  ELSE IF ~HasExitCount THEN "could not determine number of loop iterations"
  ELSE NoReport

CanAnalyzeLoop ==
  /\ pc = "canAnalyzeLoop"
  /\ \E Innermost \in BOOLEAN, BackEdges \in {1, 2},
        HasExitingBlock \in BOOLEAN, ExitingIsLatch \in BOOLEAN,
        HasExitCount \in BOOLEAN :
       LET Message == ShapeReport(Innermost, BackEdges, HasExitingBlock,
                                  ExitingIsLatch, HasExitCount)
       IN  IF Message # NoReport
           THEN /\ emitAnalysis(Message)
                /\ pc' = "done"
           ELSE /\ NoAnalysis
                /\ pc' = "scan"
  /\ UNCHANGED <<outerVars, inputVars, CanVecMem, NumLoads, NumStores,
                 MaxSafeDepDistBytes, PtrRtCheck, localVars, accessVars,
                 depVars>>

(***************************************************************************)
(* LoopAccessInfo::analyzeLoop, lines 925-1184.                            *)
(***************************************************************************)
mayReadFromMemory(I) == I.kind \in {"load", "call", "read"}

mayWriteToMemory(I) == I.kind \in {"store", "write"}

\* The test of lines 964 and 986 without its exception for parallel loops.
IsRejectedNonSimple_IgnoresParallel(I, Parallel) == ~I.simple

\* Lines 964 and 986: an access that is not simple is let through only in
\* a loop annotated parallel.
IsRejectedNonSimple(I, Parallel) == ~I.simple /\ ~Parallel

\* Lines 949-997: the instructions from Rest on.  stop is the report of the
\* instruction that ends the scan, NoReport when all were collected.
RECURSIVE ScanInstructions(_, _)
ScanInstructions(st, Rest) ==
  IF Rest = <<>> THEN st
  ELSE
    LET it == Head(Rest)
    IN  IF mayReadFromMemory(it)
        THEN IF it.kind = "call" THEN ScanInstructions(st, Tail(Rest))
             ELSE IF it.kind # "load" \/ IsRejectedNonSimple(it, IsAnnotatedParallel)
             THEN [st EXCEPT !.stop = "read with atomic ordering or volatile read"]
             ELSE ScanInstructions(
                    [st EXCEPT !.NumLoads = @ + 1,
                               !.InstMap = Append(@, MemAccessInfo(it.ptr, FALSE))],
                    Tail(Rest))
        ELSE IF mayWriteToMemory(it)
        THEN IF it.kind # "store"
             THEN [st EXCEPT !.stop = "instruction cannot be vectorized"]
             ELSE IF IsRejectedNonSimple(it, IsAnnotatedParallel)
             THEN [st EXCEPT !.stop = "write with atomic ordering or volatile write"]
             ELSE ScanInstructions(
                    [st EXCEPT !.NumStores = @ + 1,
                               !.InstMap = Append(@, MemAccessInfo(it.ptr, TRUE))],
                    Tail(Rest))
        ELSE ScanInstructions(st, Tail(Rest))

\* The vectors Loads and Stores: the pointer operands in program order.
PointerOperands(Map, IsWrite) ==
  LET Wanted(A) == A.write = IsWrite
      Sel == SelectSeq(Map, Wanted)
  IN  [i \in DOMAIN Sel |-> Sel[i].ptr]

\* Lines 938-1009.
Scan ==
  /\ pc = "scan"
  /\ \E st \in {ScanInstructions([stop |-> NoReport, NumLoads |-> NumLoads,
                                 NumStores |-> NumStores, InstMap |-> <<>>],
                                Instrs)} :
         /\ NumLoads' = st.NumLoads
         /\ NumStores' = st.NumStores
         /\ InstMap' = st.InstMap
         /\ PtrRtCheck' = [Need |-> FALSE, Pointers |-> <<>>]
         /\ IF st.stop # NoReport
            THEN /\ emitAnalysis(st.stop)
                 /\ CanVecMem' = FALSE
                 /\ pc' = "done"
            ELSE IF PointerOperands(st.InstMap, TRUE) = <<>>
            THEN /\ NoAnalysis
                 /\ CanVecMem' = TRUE
                 /\ pc' = "done"
            ELSE /\ NoAnalysis
                 /\ UNCHANGED CanVecMem
                 /\ pc' = "stores"
  /\ UNCHANGED <<outerVars, inputVars, MaxSafeDepDistBytes, localVars, accessVars,
                 DepMaxSafeDepDistBytes, ShouldRetryWithRuntimeCheck, PairQueue>>

\* Lines 1022-1049: the stores from Rest on.  uniform: a store to a
\* loop-invariant address ended the loop.
RECURSIVE AddStores(_, _)
AddStores(st, Rest) ==
  IF Rest = <<>> THEN st
  ELSE LET Ptr == Head(Rest)
       IN  IF isUniform(Ptr) THEN [st EXCEPT !.uniform = TRUE]
           ELSE IF Ptr \notin st.Seen
           THEN AddStores(
                  [st EXCEPT
                     !.Seen = @ \cup {Ptr},
                     !.NumReadWrites = @ + 1,
                     !.AST = AliasSetTrackerAdd(@, Ptr),
                     !.Accesses = SetVectorInsert(@, MemAccessInfo(Ptr, TRUE))],
                  Tail(Rest))
           ELSE AddStores(st, Tail(Rest))

\* Lines 1011-1057.
CollectStores ==
  /\ pc = "stores"
  /\ \E st \in {AddStores([uniform |-> FALSE, Seen |-> {}, NumReadWrites |-> 0,
                          AST |-> <<>>, Accesses |-> <<>>],
                         PointerOperands(InstMap, TRUE))} :
         /\ Seen' = st.Seen
         /\ NumReadWrites' = st.NumReadWrites
         /\ AST' = st.AST
         /\ Accesses' = st.Accesses
         /\ IF st.uniform
            THEN /\ emitAnalysis("write to a loop invariant address could not be vectorized")
                 /\ CanVecMem' = FALSE
                 /\ pc' = "done"
            ELSE IF IsAnnotatedParallel
            THEN /\ NoAnalysis
                 /\ CanVecMem' = TRUE
                 /\ pc' = "done"
            ELSE /\ NoAnalysis
                 /\ UNCHANGED CanVecMem
                 /\ pc' = "loads"
  /\ UNCHANGED <<outerVars, inputVars, NumLoads, NumStores, MaxSafeDepDistBytes,
                 PtrRtCheck, NumReads, NeedRTCheck, CanDoRT, NumComparisons,
                 ReadOnlyPtr, CheckDeps, DepCands, IsRTCheckNeeded, depVars>>

\* Lines 1070-1075 without the call of isStridedPtr.
IsReadOnlyLoad_FirstSeenOnly(Ptr, SeenBefore) == Ptr \notin SeenBefore

\* Lines 1070-1075: whether the load's pointer is handled as read-only.
IsReadOnlyLoad(Ptr, SeenBefore) ==
  Ptr \notin SeenBefore \/ isStridedPtr(Strides, Ptr) = 0

\* Lines 1059-1085: the loads from Rest on.
RECURSIVE AddLoads(_, _)
AddLoads(st, Rest) ==
  IF Rest = <<>> THEN st
  ELSE LET Ptr == Head(Rest)
           IsReadOnlyPtr == IsReadOnlyLoad(Ptr, st.Seen)
       IN  AddLoads(
             [st EXCEPT
                !.Seen = @ \cup {Ptr},
                !.NumReads = IF IsReadOnlyPtr THEN @ + 1 ELSE @,
                !.AST = AliasSetTrackerAdd(@, Ptr),
                !.Accesses = SetVectorInsert(@, MemAccessInfo(Ptr, FALSE)),
                !.ReadOnlyPtr = IF IsReadOnlyPtr THEN @ \cup {Ptr} ELSE @],
             Tail(Rest))

\* Lines 1059-1093.
CollectLoads ==
  /\ pc = "loads"
  /\ \E st \in {AddLoads([Seen |-> Seen, NumReads |-> NumReads, AST |-> AST,
                         Accesses |-> Accesses, ReadOnlyPtr |-> ReadOnlyPtr],
                        PointerOperands(InstMap, FALSE))} :
         /\ Seen' = st.Seen
         /\ NumReads' = st.NumReads
         /\ AST' = st.AST
         /\ Accesses' = st.Accesses
         /\ ReadOnlyPtr' = st.ReadOnlyPtr
         /\ IF NumReadWrites = 1 /\ st.NumReads = 0
            THEN /\ CanVecMem' = TRUE
                 /\ pc' = "done"
            ELSE /\ UNCHANGED CanVecMem
                 /\ pc' = "buildDependenceSets"
  /\ NoAnalysis
  /\ UNCHANGED <<outerVars, inputVars, NumLoads, NumStores, MaxSafeDepDistBytes,
                 PtrRtCheck, NumReadWrites, NeedRTCheck, CanDoRT,
                 NumComparisons, CheckDeps, DepCands, IsRTCheckNeeded, depVars>>

\* Lines 1095-1098.
BuildDependenceSets ==
  /\ pc = "buildDependenceSets"
  /\ \E st \in {processMemAccesses(AST, Accesses, ReadOnlyPtr, CheckDeps,
                                  DepCands, IsRTCheckNeeded)} :
         /\ CheckDeps' = st.CheckDeps
         /\ DepCands' = st.DepCands
         /\ IsRTCheckNeeded' = st.IsRTCheckNeeded
         /\ NeedRTCheck' = st.IsRTCheckNeeded
  /\ pc' = "canCheckPtrAtRT"
  /\ UNCHANGED <<outerVars, inputVars, infoVars, Seen, NumReads, NumReadWrites, CanDoRT,
                 NumComparisons, Accesses, AST, ReadOnlyPtr, depVars>>

\* Lines 1100-1106.
FindRuntimeCheckPointers ==
  /\ pc = "canCheckPtrAtRT"
  /\ IF NeedRTCheck
     THEN \E r \in {canCheckPtrAtRT(CheckDeps, PtrRtCheck.Pointers, FALSE)} :
            /\ CanDoRT' = r.ret
            /\ NumComparisons' = r.NumComparisons
            /\ PtrRtCheck' = [PtrRtCheck EXCEPT !.Pointers = r.Pointers]
     ELSE /\ CanDoRT' = FALSE
          /\ NumComparisons' = 0
          /\ UNCHANGED PtrRtCheck
  /\ pc' = "checkRT"
  /\ UNCHANGED <<outerVars, inputVars, CanVecMem, Report, MultipleReports, NumLoads,
                 NumStores, MaxSafeDepDistBytes, Seen, NumReads, NumReadWrites,
                 NeedRTCheck, accessVars, depVars>>

\* Lines 1118 and 1159 without the comparison with the threshold.
TooManyOrUnsizeable_NoLimit(CanDo, Comparisons) == ~CanDo

\* Lines 1118 and 1159: the runtime check cannot be made or needs too many
\* comparisons.
TooManyOrUnsizeable(CanDo, Comparisons) ==
  ~CanDo \/ Comparisons > RuntimeMemoryCheckThreshold

\* Lines 1111-1139.
CheckRuntimeCheck ==
  /\ pc = "checkRT"
  /\ LET Need1 == IF NumComparisons = 0 /\ NeedRTCheck THEN FALSE ELSE NeedRTCheck
         Bad == TooManyOrUnsizeable(CanDoRT, NumComparisons)
         CanDo1 == IF Bad THEN FALSE ELSE CanDoRT
         Rt1 == IF Bad THEN ResetRtCheck ELSE PtrRtCheck
     IN  /\ NeedRTCheck' = Need1
         /\ CanDoRT' = CanDo1
         /\ IF Need1 /\ ~CanDo1
            THEN /\ emitAnalysis("cannot identify array bounds")
                 /\ PtrRtCheck' = ResetRtCheck
                 /\ CanVecMem' = FALSE
                 /\ pc' = "done"
            ELSE /\ NoAnalysis
                 /\ PtrRtCheck' = [Rt1 EXCEPT !.Need = Need1]
                 /\ CanVecMem' = TRUE
                 /\ pc' = IF CheckDeps # {} THEN "areDepsSafe" ELSE "finish"
  /\ UNCHANGED <<outerVars, inputVars, NumLoads, NumStores, MaxSafeDepDistBytes, Seen,
                 NumReads, NumReadWrites, NumComparisons, accessVars, depVars>>

(***************************************************************************)
(* MemoryDepChecker::areDepsSafe, lines 837-874, called at line 1141.      *)
(* PairQueue is what is left of the traversal of the current class: the    *)
(* erasures from CheckDeps and the calls of isDependent, in the order of   *)
(* the loops of lines 854-871.                                             *)
(***************************************************************************)
\* Accesses[A] of the dependence checker: the program-order indices of the
\* instructions that make access A.
AccessIndices(A) ==
  LET Idx == [i \in 1..Len(InstMap) |-> i - 1]
      Makes(i) == InstMap[i + 1] = A
  IN  SelectSeq(Idx, Makes)

EraseStep(A) == [op |-> "erase", A |-> A, AIdx |-> 0, B |-> A, BIdx |-> 0]

CheckStep(A, AIdx, B, BIdx) ==
  [op |-> "check", A |-> A, AIdx |-> AIdx, B |-> B, BIdx |-> BIdx]

\* Lines 861-866 without the second call, of line 865.
RECURSIVE StepsOverI2_FirstCallOnly(_, _, _, _)
StepsOverI2_FirstCallOnly(AI, I1, OI, I2s) ==
  IF I2s = <<>> THEN <<>>
  ELSE LET I2 == Head(I2s)
           Call == IF I1 < I2 THEN <<CheckStep(AI, I1, OI, I2)>> ELSE <<>>
       IN  Call \o StepsOverI2_FirstCallOnly(AI, I1, OI, Tail(I2s))

\* Lines 861-866.
RECURSIVE StepsOverI2(_, _, _, _)
StepsOverI2(AI, I1, OI, I2s) ==
  IF I2s = <<>> THEN <<>>
  ELSE LET I2 == Head(I2s)
           Call == IF I1 < I2 THEN <<CheckStep(AI, I1, OI, I2)>>
                   ELSE IF I2 < I1 THEN <<CheckStep(OI, I2, AI, I1)>>
                   ELSE <<>>
       IN  Call \o StepsOverI2(AI, I1, OI, Tail(I2s))

\* Lines 859-867.
RECURSIVE StepsOverI1(_, _, _)
StepsOverI1(AI, I1s, OI) ==
  IF I1s = <<>> THEN <<>>
  ELSE StepsOverI2(AI, Head(I1s), OI, AccessIndices(OI))
         \o StepsOverI1(AI, Tail(I1s), OI)

\* Lines 856-869.
RECURSIVE StepsOverOI(_, _)
StepsOverOI(AI, Others) ==
  IF Others = <<>> THEN <<>>
  ELSE StepsOverI1(AI, AccessIndices(AI), Head(Others))
         \o StepsOverOI(AI, Tail(Others))

\* Lines 854-871.
RECURSIVE StepsOverClass(_)
StepsOverClass(Members) ==
  IF Members = <<>> THEN <<>>
  ELSE <<EraseStep(Head(Members))>>
         \o StepsOverOI(Head(Members), Tail(Members))
         \o StepsOverClass(Tail(Members))

\* Line 855, for the erasures at the head of the queue.
RECURSIVE RunErasures(_, _)
RunErasures(Queue, Deps) ==
  IF Queue # <<>> /\ Head(Queue).op = "erase"
  THEN RunErasures(Tail(Queue), Deps \ {Head(Queue).A})
  ELSE [Queue |-> Queue, CheckDeps |-> Deps]

\* areDepsSafe without the assignment of line 841.
AreDepsSafeBegin_NoInit ==
  /\ pc = "areDepsSafe"
  /\ PairQueue' = <<>>
  /\ pc' = "depLoop"
  /\ UNCHANGED <<outerVars, inputVars, infoVars, localVars, accessVars, InstMap,
                 DepMaxSafeDepDistBytes, ShouldRetryWithRuntimeCheck>>

\* Line 841.
AreDepsSafeBegin ==
  /\ pc = "areDepsSafe"
  /\ DepMaxSafeDepDistBytes' = UINT_MAX
  /\ PairQueue' = <<>>
  /\ pc' = "depLoop"
  /\ UNCHANGED <<outerVars, inputVars, infoVars, localVars, accessVars, InstMap,
                 ShouldRetryWithRuntimeCheck>>

\* Lines 842-855: the next access of CheckDeps and its class.  The order of
\* a SmallPtrSet is the order of the addresses of the values.
NextClass ==
  /\ pc = "depLoop"
  /\ PairQueue = <<>>
  /\ CheckDeps # {}
  /\ \E CurAccess \in CheckDeps :
       \E r \in {RunErasures(StepsOverClass(ECClassOf(DepCands, CurAccess)),
                             CheckDeps)} :
         /\ PairQueue' = r.Queue
         /\ CheckDeps' = r.CheckDeps
  /\ UNCHANGED <<outerVars, inputVars, pc, infoVars, localVars, Accesses, AST,
                 ReadOnlyPtr, DepCands, IsRTCheckNeeded, InstMap,
                 DepMaxSafeDepDistBytes, ShouldRetryWithRuntimeCheck>>

\* Lines 863-866, and lines 1141-1143 when the call ends areDepsSafe.
CheckPair ==
  /\ pc = "depLoop"
  /\ PairQueue # <<>>
  /\ \E d \in {isDependent(Head(PairQueue).A, Head(PairQueue).AIdx,
                            Head(PairQueue).B, Head(PairQueue).BIdx,
                            DepMaxSafeDepDistBytes)},
        r \in {RunErasures(Tail(PairQueue), CheckDeps)} :
         /\ DepMaxSafeDepDistBytes' = d.max
         /\ ShouldRetryWithRuntimeCheck' = (ShouldRetryWithRuntimeCheck \/ d.retry)
         /\ IF d.dep
            THEN /\ CanVecMem' = FALSE
                 /\ MaxSafeDepDistBytes' = d.max
                 /\ PairQueue' = <<>>
                 /\ UNCHANGED CheckDeps
                 /\ pc' = "afterDeps"
            ELSE /\ PairQueue' = r.Queue
                 /\ CheckDeps' = r.CheckDeps
                 /\ UNCHANGED <<CanVecMem, MaxSafeDepDistBytes, pc>>
  /\ UNCHANGED <<outerVars, inputVars, Report, MultipleReports, NumLoads, NumStores,
                 PtrRtCheck, localVars, Accesses, AST, ReadOnlyPtr, DepCands,
                 IsRTCheckNeeded, InstMap>>

\* Line 873, and lines 1141-1143.
AreDepsSafeReturn ==
  /\ pc = "depLoop"
  /\ PairQueue = <<>>
  /\ CheckDeps = {}
  /\ CanVecMem' = TRUE
  /\ MaxSafeDepDistBytes' = DepMaxSafeDepDistBytes
  /\ pc' = "afterDeps"
  /\ UNCHANGED <<outerVars, inputVars, Report, MultipleReports, NumLoads, NumStores,
                 PtrRtCheck, localVars, accessVars, depVars>>

\* Lines 1145-1156: the builder is run again, on every pointer's stride.
RetryWithRuntimeCheck ==
  /\ pc = "afterDeps"
  /\ ~CanVecMem /\ ShouldRetryWithRuntimeCheck
  /\ NeedRTCheck' = TRUE
  /\ CheckDeps' = {}
  /\ \E b \in {canCheckPtrAtRT({}, ResetRtCheck.Pointers, TRUE)} :
       /\ CanDoRT' = b.ret
       /\ NumComparisons' = b.NumComparisons
       /\ PtrRtCheck' = [Need |-> TRUE, Pointers |-> b.Pointers]
  /\ pc' = "checkRetry"
  /\ UNCHANGED <<outerVars, inputVars, CanVecMem, Report, MultipleReports, NumLoads,
                 NumStores, MaxSafeDepDistBytes, Seen, NumReads, NumReadWrites,
                 Accesses, AST, ReadOnlyPtr, DepCands, IsRTCheckNeeded, depVars>>

\* Lines 1157-1175 without the return of line 1171.
CheckRetry_FallsThrough ==
  /\ pc = "checkRetry"
  /\ IF TooManyOrUnsizeable(CanDoRT, NumComparisons)
     THEN /\ IF ~CanDoRT /\ NumComparisons > 0
             THEN emitAnalysis("cannot check memory dependencies at runtime")
             ELSE emitAnalysis("exceeds limit of dependent memory operations checked at runtime")
          /\ PtrRtCheck' = ResetRtCheck
          /\ CanVecMem' = FALSE
          /\ pc' = "finish"
     ELSE /\ NoAnalysis
          /\ UNCHANGED PtrRtCheck
          /\ CanVecMem' = TRUE
          /\ pc' = "finish"
  /\ UNCHANGED <<outerVars, inputVars, NumLoads, NumStores, MaxSafeDepDistBytes,
                 localVars, accessVars, depVars>>

\* Lines 1157-1175 with the test of line 1160 comparing NumComparisons with
\* the threshold instead of 0.
CheckRetry_ComparesWithThreshold ==
  /\ pc = "checkRetry"
  /\ IF TooManyOrUnsizeable(CanDoRT, NumComparisons)
     THEN /\ IF ~CanDoRT /\ NumComparisons > RuntimeMemoryCheckThreshold
             THEN emitAnalysis("cannot check memory dependencies at runtime")
             ELSE emitAnalysis("exceeds limit of dependent memory operations checked at runtime")
          /\ PtrRtCheck' = ResetRtCheck
          /\ CanVecMem' = FALSE
          /\ pc' = "done"
     ELSE /\ NoAnalysis
          /\ UNCHANGED PtrRtCheck
          /\ CanVecMem' = TRUE
          /\ pc' = "finish"
  /\ UNCHANGED <<outerVars, inputVars, NumLoads, NumStores, MaxSafeDepDistBytes,
                 localVars, accessVars, depVars>>

\* Lines 1157-1175.
CheckRetry ==
  /\ pc = "checkRetry"
  /\ IF TooManyOrUnsizeable(CanDoRT, NumComparisons)
     THEN /\ IF ~CanDoRT /\ NumComparisons > 0
             THEN emitAnalysis("cannot check memory dependencies at runtime")
             ELSE emitAnalysis("exceeds limit of dependent memory operations checked at runtime")
          /\ PtrRtCheck' = ResetRtCheck
          /\ CanVecMem' = FALSE
          /\ pc' = "done"
     ELSE /\ NoAnalysis
          /\ UNCHANGED PtrRtCheck
          /\ CanVecMem' = TRUE
          /\ pc' = "finish"
  /\ UNCHANGED <<outerVars, inputVars, NumLoads, NumStores, MaxSafeDepDistBytes,
                 localVars, accessVars, depVars>>

\* Lines 1178-1184.
Finish ==
  /\ \/ pc = "finish"
     \/ pc = "afterDeps" /\ ~(~CanVecMem /\ ShouldRetryWithRuntimeCheck)
  /\ IF ~CanVecMem
     THEN emitAnalysis("unsafe dependent memory operations in loop")
     ELSE NoAnalysis
  /\ pc' = "done"
  /\ UNCHANGED <<outerVars, inputVars, CanVecMem, NumLoads, NumStores,
                 MaxSafeDepDistBytes, PtrRtCheck, localVars, accessVars,
                 depVars>>

(***************************************************************************)
(* LoopAccessInfo::addRuntimeCheck, lines 1215-1298, called on the result   *)
(* of the analysis.  The emitted instructions are modelled by the values    *)
(* they compute when the check runs: Addr gives the address of every base   *)
(* of the descriptor and BTC the backedge-taken count of the loop.          *)
(***************************************************************************)
\* Addresses and counts the check is run with.
AddrChoices == {0, 8, 64}

BackedgeCounts == {1, 3}

\* A pointer value: an unsigned number of the width of a pointer.
ToAddress(x) == x % (2^Int64Bits)

BasesOf(Ptrs) == {Ptrs[i].Start.base : i \in DOMAIN Ptrs}

\* Lines 1229-1250.  The bounds of a pointer that does not change in the
\* loop are the pointer itself.
ExpandedStart(Entry, Addr) == ToAddress(Addr[Entry.Start.base] + Entry.Start.off)

ExpandedEnd(Entry, Addr, BTC) ==
  IF isUniform(Entry.Ptr) THEN ExpandedStart(Entry, Addr)
  ELSE ToAddress(Addr[Entry.End.base] + Entry.End.off + Entry.End.step * BTC)

Instruction(name, val) == [name |-> name, val |-> val]

\* Lines 1275-1279 with bound1 left out of found.conflict.
FoundConflict_OneBound(S, E, i, j) ==
  <<Instruction("bound0", S[i] <= E[j]),
    Instruction("bound1", S[j] <= E[i]),
    Instruction("found.conflict", S[i] <= E[j])>>

\* Lines 1275-1279: the two unsigned comparisons and their conjunction.
FoundConflict(S, E, i, j) ==
  <<Instruction("bound0", S[i] <= E[j]),
    Instruction("bound1", S[j] <= E[i]),
    Instruction("found.conflict", S[i] <= E[j] /\ S[j] <= E[i])>>

\* Lines 1281-1286.  acc holds MemoryRuntimeCheck (IsNull: still nullptr)
\* and the instructions emitted so far; Cmps is what FoundConflict emitted.
ReduceConflict(acc, Cmps) ==
  IF acc.IsNull
  THEN [IsNull |-> FALSE, val |-> Cmps[3].val, Emitted |-> acc.Emitted \o Cmps]
  ELSE [IsNull |-> FALSE, val |-> (acc.val \/ Cmps[3].val),
        Emitted |-> acc.Emitted \o Cmps
                      \o <<Instruction("conflict.rdx", acc.val \/ Cmps[3].val)>>]

\* Lines 1256-1287: the inner loop, from j on.
RECURSIVE ChecksOverJ(_, _, _, _, _)
ChecksOverJ(acc, S, E, i, j) ==
  IF j > Len(S) THEN acc
  ELSE IF ~needsChecking(PtrRtCheck.Pointers, i, j)
  THEN ChecksOverJ(acc, S, E, i, j + 1)
  ELSE ChecksOverJ(ReduceConflict(acc, FoundConflict(S, E, i, j)), S, E, i, j + 1)

\* Lines 1255-1288: the outer loop, from i on.
RECURSIVE ChecksOverI(_, _, _, _)
ChecksOverI(acc, S, E, i) ==
  IF i > Len(S) THEN acc
  ELSE ChecksOverI(ChecksOverJ(acc, S, E, i, i + 1), S, E, i + 1)

\* Lines 1293-1297.  CreateAnd on a null MemoryRuntimeCheck is undefined:
\* any value may come of it.
MemcheckConflict(acc) ==
  {[IsNull |-> FALSE, val |-> v,
    Emitted |-> Append(acc.Emitted, Instruction("memcheck.conflict", v))] :
     v \in IF acc.IsNull THEN BOOLEAN ELSE {acc.val}}

addRuntimeCheck ==
  /\ pc = "done"
  /\ ~RuntimeCheckRet.called
  /\ IF ~PtrRtCheck.Need
     THEN /\ RuntimeCheckRet' = [called |-> TRUE, FirstInst |-> 0,
                                 IsNull |-> TRUE, Check |-> FALSE]
          /\ UNCHANGED <<Starts, Ends, Emitted>>
     ELSE \E Addr \in [BasesOf(PtrRtCheck.Pointers) -> AddrChoices],
             BTC \in BackedgeCounts :
            \E S \in {[i \in DOMAIN PtrRtCheck.Pointers |->
                         ExpandedStart(PtrRtCheck.Pointers[i], Addr)]},
               E \in {[i \in DOMAIN PtrRtCheck.Pointers |->
                         ExpandedEnd(PtrRtCheck.Pointers[i], Addr, BTC)]} :
              \E r \in MemcheckConflict(
                          ChecksOverI([IsNull |-> TRUE, val |-> FALSE,
                                       Emitted |-> <<>>], S, E, 1)) :
                /\ Starts' = S
                /\ Ends' = E
                /\ Emitted' = r.Emitted
                /\ RuntimeCheckRet' = [called |-> TRUE, FirstInst |-> 1,
                                       IsNull |-> FALSE, Check |-> r.val]
  /\ UNCHANGED <<inputVars, pc, infoVars, localVars, accessVars, depVars,
                 strideVars, passVars, forwardVars>>

Next ==
  \/ CanAnalyzeLoop
  \/ Scan
  \/ CollectStores
  \/ CollectLoads
  \/ BuildDependenceSets
  \/ FindRuntimeCheckPointers
  \/ CheckRuntimeCheck
  \/ AreDepsSafeBegin
  \/ NextClass
  \/ CheckPair
  \/ AreDepsSafeReturn
  \/ RetryWithRuntimeCheck
  \/ CheckRetry
  \/ Finish
  \/ addRuntimeCheck

Spec == Init /\ [][Next]_vars

(***************************************************************************)
(* LoopAccessAnalysis::getInfo, lines 1329-1345.  LoopAccessInfoMap maps a   *)
(* loop to the place in Constructed of its LoopAccessInfo, 0 being the      *)
(* null pointer; Constructed holds the objects made by make_unique.  What   *)
(* the constructor computed is the object's CanVecMem.                      *)
(***************************************************************************)
\* Loops of the function the pass runs on.
FunctionLoops == {"L1", "L2", "L3"}

\* Sizes of the map of symbolic strides a caller hands over.
StridesSizes == {0, 1}

\* DenseMap::operator[]: a key that is not in the map is put there with a
\* null pointer.
DenseMapLookup(Map, L) ==
  IF L \in DOMAIN Map THEN Map ELSE Map @@ (L :> 0)

\* Lines 1329-1345 without the test of line 1338; it stops when there is
\* one object more than there are loops.
getInfo_AlwaysConstructs(L, StridesSize, Analysed) ==
  /\ Constructed' = Append(Constructed,
                           [loop |-> L, NumSymbolicStrides |-> StridesSize,
                            CanVecMem |-> Analysed])
  /\ LoopAccessInfoMap' =
       [DenseMapLookup(LoopAccessInfoMap, L) EXCEPT ![L] = Len(Constructed) + 1]
  /\ GetInfoRet' = [called |-> TRUE, L |-> L, LAI |-> Len(Constructed) + 1,
                    StridesChanged |-> FALSE]
  /\ Len(Constructed) < Cardinality(FunctionLoops) + 1
  /\ UNCHANGED <<inputVars, pc, infoVars, localVars, accessVars, depVars,
                 clientVars, strideVars, forwardVars>>

\* Lines 1329-1345.  StridesChanged records that the assertion of line 1334
\* fails in a build that has assertions.
getInfo(L, StridesSize, Analysed) ==
  /\ \E Map \in {DenseMapLookup(LoopAccessInfoMap, L)} :
       IF Map[L] = 0
       THEN /\ Constructed' = Append(Constructed,
                                     [loop |-> L,
                                      NumSymbolicStrides |-> StridesSize,
                                      CanVecMem |-> Analysed])
            /\ LoopAccessInfoMap' = [Map EXCEPT ![L] = Len(Constructed) + 1]
            /\ GetInfoRet' = [called |-> TRUE, L |-> L,
                              LAI |-> Len(Constructed) + 1,
                              StridesChanged |-> FALSE]
       ELSE /\ UNCHANGED Constructed
            /\ LoopAccessInfoMap' = Map
            /\ GetInfoRet' = [called |-> TRUE, L |-> L, LAI |-> Map[L],
                              StridesChanged |->
                                Constructed[Map[L]].NumSymbolicStrides
                                  # StridesSize]
  /\ UNCHANGED <<inputVars, pc, infoVars, localVars, accessVars, depVars,
                 clientVars, strideVars, forwardVars>>

\* The pass after runOnFunction, lines 1361-1370: nothing is cached.
PassInit ==
  /\ NoPass
  /\ ConstructorArguments([body |-> <<>>, alias |-> FALSE,
                           options |-> DefaultOptions])
  /\ IsAnnotatedParallel = FALSE
  /\ ConstructorEntry
  /\ NoRuntimeCheck
  /\ NoStrideCall
  /\ NoForwardCall

PassNext ==
  \E L \in FunctionLoops, StridesSize \in StridesSizes, Analysed \in BOOLEAN :
    getInfo(L, StridesSize, Analysed)

PassSpec == PassInit /\ [][PassNext]_vars

(***************************************************************************)
(* isStridedPtr, lines 588-666, on pointers of every shape.  No symbolic   *)
(* stride is declared, so line 601 obtains the pointer's own expression.   *)
(***************************************************************************)
\* Steps of the recurrences: small ones, and ones whose quotient by the
\* element size does not fit an `int`.
StepChoices ==
  {-8, -4, -1, 1, 2, 4, 8, 12,
   2^(UnsignedBits - 1) * 4, 2^UnsignedBits * 4, (2^UnsignedBits + 1) * 4}

\* The step of a recurrence that is not affine is a recurrence itself, and
\* only a constant has a width.
RecurrenceShapes ==
  {sh \in [stepConst : BOOLEAN, wide : BOOLEAN, affine : BOOLEAN] :
     /\ sh.stepConst => sh.affine
     /\ sh.wide => sh.stepConst}

StrideSCEVs ==
  {Unknown("p"), Invariant("p")} \cup
  {[AddRecOver(loop, "p", 0, step, nowrap) EXCEPT
      !.stepConst = sh.stepConst, !.wide = sh.wide, !.affine = sh.affine] :
     loop \in {"L", "outer"}, step \in StepChoices, nowrap \in BOOLEAN,
     sh \in RecurrenceShapes}

StridePointers ==
  {Pointer("p", as, ty, inb, scev) :
     as \in {0, 1}, ty \in ElemTypes, inb \in BOOLEAN, scev \in StrideSCEVs}

StrideInit ==
  /\ StridePtr \in StridePointers
  /\ StrideRet = [called |-> FALSE, value |-> 0]
  /\ ConstructorArguments([body |-> <<>>, alias |-> FALSE,
                           options |-> DefaultOptions])
  /\ IsAnnotatedParallel = FALSE
  /\ ConstructorEntry
  /\ NoRuntimeCheck
  /\ NoPass
  /\ NoForwardCall

CallIsStridedPtr ==
  /\ ~StrideRet.called
  /\ StrideRet' = [called |-> TRUE,
                   value |-> StrideOfRecurrence(StridePtr, StridePtr.scev)]
  /\ UNCHANGED <<inputVars, pc, infoVars, localVars, accessVars, depVars,
                 clientVars, StridePtr, passVars, forwardVars>>

StrideNext == CallIsStridedPtr

StrideSpec == StrideInit /\ [][StrideNext]_vars

(***************************************************************************)
(* couldPreventStoreLoadForward, lines 668-705, on arguments of every      *)
(* size.  The arguments are `unsigned`; a division by zero is undefined,   *)
(* and the call then traps or returns any value.                           *)
(***************************************************************************)
\* Element sizes: the usual ones, and ones for which 64 * TypeByteSize gets
\* to half the range of `unsigned` or wraps.
TypeByteSizeChoices ==
  {1, 4, 8, 3 * 2^(UnsignedBits - 8), 2^(UnsignedBits - 7),
   2^(UnsignedBits - 6)}

DistanceChoices ==
  {0, 4, 8, 12, 16, 24, 40, 2^(UnsignedBits - 2), 2^(UnsignedBits - 1)}

MaxSafeChoices == {8, 12, 64, 2^(UnsignedBits - 1), UINT_MAX}

ForwardInit ==
  /\ ForwardArgs \in [Distance : DistanceChoices,
                      TypeByteSize : TypeByteSizeChoices,
                      MaxSafeDepDistBytes : MaxSafeChoices]
  /\ ForwardRet = [called |-> FALSE, returned |-> FALSE, value |-> FALSE,
                   MaxSafeDepDistBytes |-> UINT_MAX]
  /\ ConstructorArguments([body |-> <<>>, alias |-> FALSE,
                           options |-> DefaultOptions])
  /\ IsAnnotatedParallel = FALSE
  /\ ConstructorEntry
  /\ NoRuntimeCheck
  /\ NoStrideCall
  /\ NoPass

\* What the call leaves behind when it returns.
ForwardReturn(fwd) ==
  [called |-> TRUE, returned |-> TRUE, value |-> fwd.prevent,
   MaxSafeDepDistBytes |-> fwd.max]

CallCouldPreventStoreLoadForward ==
  /\ ~ForwardRet.called
  /\ IF ForwardDividesByZero(ForwardArgs.Distance, ForwardArgs.TypeByteSize,
                             ForwardArgs.MaxSafeDepDistBytes)
     THEN ForwardRet' \in [called : {TRUE}, returned : BOOLEAN,
                           value : BOOLEAN,
                           MaxSafeDepDistBytes :
                             {ForwardArgs.MaxSafeDepDistBytes}]
     ELSE ForwardRet' = ForwardReturn(
                          couldPreventStoreLoadForward(
                            ForwardArgs.Distance, ForwardArgs.TypeByteSize,
                            ForwardArgs.MaxSafeDepDistBytes))
  /\ UNCHANGED <<inputVars, pc, infoVars, localVars, accessVars, depVars,
                 clientVars, strideVars, passVars, ForwardArgs>>

ForwardNext == CallCouldPreventStoreLoadForward

ForwardSpec == ForwardInit /\ [][ForwardNext]_vars

(***************************************************************************)
(* Vocabulary of the properties.                                           *)
(***************************************************************************)
\* The constructor has returned.
Done == pc = "done"

\* The diagnostics of canAnalyzeLoop, lines 876-923.
ShapeMessages ==
  {"loop is not the innermost loop",
   "loop control flow is not understood by analyzer",
   "could not determine number of loop iterations"}

\* canAnalyzeLoop returned true: analyzeLoop was run.
PassedShape == Report \notin ShapeMessages

\* The options have their default values.
IsDefaultOptions ==
  /\ RuntimeMemoryCheckThreshold = DefaultRuntimeMemoryCheckThreshold
  /\ VectorizationFactor = 0
  /\ VectorizationInterleave = 0

\* The pairs of entries of the descriptor a runtime check is emitted for.
CheckedPairs(Ptrs) ==
  {pr \in (DOMAIN Ptrs) \X (DOMAIN Ptrs) :
     pr[1] < pr[2] /\ needsChecking(Ptrs, pr[1], pr[2])}

\* The checked pairs whose pointers are in different address spaces.
CrossAddressSpacePairs(Ptrs) ==
  {pr \in CheckedPairs(Ptrs) :
     getPointerAddressSpace(Ptrs[pr[1]].Ptr) # getPointerAddressSpace(Ptrs[pr[2]].Ptr)}

(***************************************************************************)
(* C1.                                                                     *)
(***************************************************************************)
\* Every memory reader of the body is a load or a call of a recognised
\* intrinsic, every memory writer is a store, and no store is to a
\* loop-invariant address.
ParallelBodyIsPlain ==
  \A i \in DOMAIN Instrs :
    /\ mayReadFromMemory(Instrs[i]) => Instrs[i].kind \in {"load", "call"}
    /\ mayWriteToMemory(Instrs[i]) => Instrs[i].kind = "store"
    /\ Instrs[i].kind = "store" => ~isUniform(Instrs[i].ptr)

\* C1 as amended: a loop annotated parallel that passes the loop-shape
\* preconditions is reported with need_runtime_check = false, and with
\* can_vectorize = true exactly when its memory readers are loads or calls of
\* recognised intrinsics, its memory writers are stores and none of its
\* stores is to a loop-invariant address; accesses that are not simple do not
\* matter.
C1_ParallelAccepted ==
  (Done /\ IsAnnotatedParallel /\ PassedShape)
    => /\ ~PtrRtCheck.Need
       /\ CanVecMem <=> ParallelBodyIsPlain

\* A parallel loop with a load or store that is not simple was accepted.
C1_Witness ==
  /\ Done /\ IsAnnotatedParallel /\ PassedShape /\ CanVecMem
  /\ \E i \in DOMAIN Instrs : ~Instrs[i].simple
  /\ \E i \in DOMAIN Instrs : Instrs[i].kind = "store"

\* C1 as stated: every loop annotated parallel that passes the loop-shape
\* preconditions is reported with can_vectorize = true and
\* need_runtime_check = false, whatever memory instructions it contains.
C1_AsStated ==
  (Done /\ IsAnnotatedParallel /\ PassedShape)
    => (CanVecMem /\ ~PtrRtCheck.Need)

(***************************************************************************)
(* C2.                                                                     *)
(***************************************************************************)
\* C2: whenever a completed analysis reports can_vectorize = false, its
\* need_runtime_check flag is false and its runtime descriptor is empty.
C2_RejectedIsConservative ==
  (Done /\ ~CanVecMem)
    => (~PtrRtCheck.Need /\ PtrRtCheck.Pointers = <<>>)

(***************************************************************************)
(* C3.                                                                     *)
(***************************************************************************)
\* C3: emitAnalysis is called at most once in a run of the constructor, so
\* the assertion "Multiple reports generated" does not fail, and at the end
\* a diagnostic is recorded exactly when can_vectorize is false.
C3_OneReport ==
  /\ ~MultipleReports
  /\ Done => ((Report # NoReport) <=> ~CanVecMem)

\* The run went through the retry of the runtime check and was rejected
\* there, with its one diagnostic.
C3_Witness ==
  /\ Done /\ ~CanVecMem
  /\ Report = "exceeds limit of dependent memory operations checked at runtime"

(***************************************************************************)
(* C4.                                                                     *)
(***************************************************************************)
\* C4: MaxSafeDepDistBytes is UINT_MAX when areDepsSafe starts and in every
\* result no dependence check was run for, and no call of isDependent made
\* during areDepsSafe increases it.
C4_MaxSafeDepDistNonIncreasing ==
  [][ /\ (pc = "areDepsSafe" /\ pc' = "depLoop")
           => DepMaxSafeDepDistBytes' = UINT_MAX
      /\ pc = "depLoop" => DepMaxSafeDepDistBytes' <= DepMaxSafeDepDistBytes
      /\ DepMaxSafeDepDistBytes' = Uninitialized
           => MaxSafeDepDistBytes' = UINT_MAX
      /\ MaxSafeDepDistBytes' <= MaxSafeDepDistBytes ]_vars

\* areDepsSafe is running and a call of isDependent has lowered the value.
C4_Witness ==
  /\ pc = "depLoop"
  /\ DepMaxSafeDepDistBytes # Uninitialized
  /\ DepMaxSafeDepDistBytes < UINT_MAX

(***************************************************************************)
(* C5.                                                                     *)
(***************************************************************************)
\* a[i] = a[i-8] ^ a[i-3] on 4-byte elements, default options.
IsScenarioS2 ==
  /\ Instrs = <<Load("am8"), Load("am3"), Store("a0")>>
  /\ ~IsAnnotatedParallel
  /\ IsDefaultOptions

\* C5 as amended: for a[i] = a[i-8] ^ a[i-3] on 4-byte elements the analysis
\* reports can_vectorize = false, with the diagnostic of an unsafe
\* dependence, need_runtime_check = false and max_safe_distance_bytes = 12:
\* the distance of 12 bytes is recorded and then found to prevent
\* store-to-load forwarding.
C5_ForwardingConflictRejected ==
  (Done /\ PassedShape /\ IsScenarioS2)
    => /\ ~CanVecMem
       /\ Report = "unsafe dependent memory operations in loop"
       /\ ~PtrRtCheck.Need
       /\ MaxSafeDepDistBytes = 12

\* The analysis of the loop of the scenario has ended.
C5_Witness ==
  /\ Done /\ PassedShape /\ IsScenarioS2
  /\ DepMaxSafeDepDistBytes = 12

\* C5 as stated: for a[i] = a[i-8] ^ a[i-3] on 4-byte elements the analysis
\* reports can_vectorize = true with max_safe_distance_bytes = 12.
C5_AsStated ==
  (Done /\ PassedShape /\ IsScenarioS2)
    => (CanVecMem /\ MaxSafeDepDistBytes = 12)

(***************************************************************************)
(* C6.                                                                     *)
(***************************************************************************)
\* a[i] = b[i]; b[i+1] = a[i], a and b distinct objects in one alias set,
\* with the stored value kept in a register or loaded again.
IsScenarioS3 ==
  /\ Instrs \in {<<Load("b0"), Store("a0"), Store("b1")>>, ScenarioS3Reload}
  /\ MayAlias
  /\ ~IsAnnotatedParallel
  /\ IsDefaultOptions

\* C6 as amended: for a[i] = b[i]; b[i+1] = a[i] with a and b in one alias
\* set the runtime descriptor has three entries (a[i], b[i+1] and b[i]) and
\* exactly two pairs of entries require a runtime check; the loop is
\* rejected for the dependence of distance 4 between b[i] and b[i+1], and
\* need_runtime_check is left true.
C6_ThreeEntriesTwoPairs ==
  (Done /\ PassedShape /\ IsScenarioS3)
    => /\ Len(PtrRtCheck.Pointers) = 3
       /\ {PtrRtCheck.Pointers[i].Ptr : i \in 1..3} = {"a0", "b0", "b1"}
       /\ Cardinality(CheckedPairs(PtrRtCheck.Pointers)) = 2
       /\ PtrRtCheck.Need
       /\ ~CanVecMem
       /\ Report = "unsafe dependent memory operations in loop"

\* The analysis of the loop of the scenario has ended.
C6_Witness ==
  /\ Done /\ PassedShape /\ IsScenarioS3
  /\ NumComparisons = 4

\* C6 as stated: the result has need_runtime_check = true, its descriptor
\* has exactly two entries and exactly one pair of entries requires a
\* runtime check.
C6_AsStated ==
  (Done /\ PassedShape /\ IsScenarioS3)
    => /\ PtrRtCheck.Need
       /\ Len(PtrRtCheck.Pointers) = 2
       /\ Cardinality(CheckedPairs(PtrRtCheck.Pointers)) = 1

(***************************************************************************)
(* C7.                                                                     *)
(***************************************************************************)
\* A load followed by a store of the same type 2*T bytes further on:
\* a[i+2] = a[i] on 4-byte elements, d[i+2] = d[i] on 8-byte elements.
IsReadThenWriteAtTwiceTheSize ==
  /\ Instrs \in {<<Load("a0"), Store("a2")>>, <<Load("d0"), Store("d2")>>}
  /\ ~IsAnnotatedParallel
  /\ IsDefaultOptions

\* C7: a[i+2] = a[i] on 4-byte elements is reported with can_vectorize =
\* true, need_runtime_check = false and max_safe_distance_bytes = 8; a read
\* followed by a write of the same type at the constant positive distance
\* 2*T is accepted with max_safe_distance_bytes = 2*T.
C7_TwiceTheSizeAccepted ==
  /\ (Done /\ PassedShape /\ IsReadThenWriteAtTwiceTheSize)
       => /\ CanVecMem
          /\ ~PtrRtCheck.Need
          /\ Report = NoReport
          /\ MaxSafeDepDistBytes
               = 2 * getTypeAllocSize(getElementType(Instrs[1].ptr))
          /\ Instrs[1].ptr = "a0" => MaxSafeDepDistBytes = 8
  /\ IsDefaultOptions
       => \A ty \in ElemTypes :
            DependenceAtDistance(2 * getTypeAllocSize(ty), ty, ty, FALSE, TRUE,
                                 getTypeAllocSize(ty), UINT_MAX)
              = DepResult(FALSE, 2 * getTypeAllocSize(ty), FALSE)

\* The analysis of d[i+2] = d[i] has ended.
C7_Witness ==
  /\ Done /\ PassedShape /\ IsReadThenWriteAtTwiceTheSize
  /\ Instrs[1].ptr = "d0"
  /\ DepMaxSafeDepDistBytes = 16

(***************************************************************************)
(* C8.                                                                     *)
(***************************************************************************)
\* The pointers the alias set tracker holds.
NumTrackedPointers(Tracker) ==
  Cardinality(UNION {Range(Tracker[i]) : i \in DOMAIN Tracker})

\* writes * (reads + writes - 1) for the entries of alias set ASId, zero
\* when they are of one dependence set.
ExpectedComparisons(Ptrs, ASId) ==
  LET Of == {i \in DOMAIN Ptrs : Ptrs[i].AliasSetId = ASId}
      W == Cardinality({i \in Of : Ptrs[i].IsWritePtr})
      R == Cardinality({i \in Of : ~Ptrs[i].IsWritePtr})
  IN  IF Cardinality({Ptrs[i].DependencySetId : i \in Of}) = 1 THEN 0
      ELSE W * (R + W - 1)

RECURSIVE SumOfExpectedComparisons(_, _)
SumOfExpectedComparisons(Ptrs, ASIds) ==
  IF ASIds = {} THEN 0
  ELSE ExpectedComparisons(Ptrs, CHOOSE k \in ASIds : \A m \in ASIds : k <= m)
         + SumOfExpectedComparisons(
             Ptrs, ASIds \ {CHOOSE k \in ASIds : \A m \in ASIds : k <= m})

\* One of the two comparisons of the count with the threshold is next.
AtThresholdTest == pc \in {"checkRT", "checkRetry"}

\* C8: the count of comparisons is the sum over the alias sets of
\* writes * (reads + writes - 1), zero for an alias set of one dependence
\* set; when it exceeds the threshold the loop is rejected, at the first run
\* of the builder and at the retry, and a count that does not exceed the
\* threshold does not reject a loop whose pointers can all be checked.
C8_ThresholdRejects ==
  [][ /\ (AtThresholdTest /\ NumComparisons > RuntimeMemoryCheckThreshold)
           => (pc' = "done" /\ ~CanVecMem' /\ Report' # NoReport)
      /\ (AtThresholdTest /\ CanDoRT
            /\ NumComparisons <= RuntimeMemoryCheckThreshold)
           => (pc' # "done" /\ CanVecMem')
      /\ (AtThresholdTest
            /\ Len(PtrRtCheck.Pointers) = NumTrackedPointers(AST))
           => NumComparisons
                = SumOfExpectedComparisons(PtrRtCheck.Pointers, DOMAIN AST)
      /\ (pc' = "done" /\ NumComparisons' > RuntimeMemoryCheckThreshold)
           => ~CanVecMem' ]_vars

\* A threshold of 1 and a count of 2: rejected.
C8_Witness ==
  /\ Done /\ ~CanVecMem
  /\ RuntimeMemoryCheckThreshold = 1
  /\ NumComparisons = 2
  /\ Report \in {"cannot identify array bounds",
                 "exceeds limit of dependent memory operations checked at runtime"}

(***************************************************************************)
(* C9.                                                                     *)
(***************************************************************************)
\* At least one of the two entries is a write, their dependence sets differ
\* and their alias sets are the same.
WriteAcrossDependenceSets(E1, E2) ==
  /\ E1.IsWritePtr \/ E2.IsWritePtr
  /\ E1.DependencySetId # E2.DependencySetId
  /\ E1.AliasSetId = E2.AliasSetId

\* Descriptor entries of every kind, as far as needsChecking reads them.
EntryKinds ==
  [IsWritePtr : BOOLEAN, DependencySetId : 1..2, AliasSetId : 1..2]

\* needsChecking on two entries of every kind.
NeedsCheckingOfEveryKind ==
  \A E1 \in EntryKinds : \A E2 \in EntryKinds :
    /\ needsChecking(<<E1, E2>>, 1, 2) <=> WriteAcrossDependenceSets(E1, E2)
    /\ needsChecking(<<E1, E2>>, 1, 2) <=> needsChecking(<<E1, E2>>, 2, 1)

\* C9: needsChecking(i, j) is true if and only if at least one of the two
\* entries is a write, their dependence-set ids differ and their alias-set
\* ids are equal; the relation is symmetric in i and j.
C9_NeedsCheckingIff ==
  /\ \A i \in DOMAIN PtrRtCheck.Pointers : \A j \in DOMAIN PtrRtCheck.Pointers :
       /\ needsChecking(PtrRtCheck.Pointers, i, j)
            <=> WriteAcrossDependenceSets(PtrRtCheck.Pointers[i],
                                          PtrRtCheck.Pointers[j])
       /\ needsChecking(PtrRtCheck.Pointers, i, j)
            <=> needsChecking(PtrRtCheck.Pointers, j, i)
  /\ NeedsCheckingOfEveryKind

\* A descriptor with a pair that needs a check and a pair with a write that
\* needs none, being of one dependence set.
C9_Witness ==
  /\ CheckedPairs(PtrRtCheck.Pointers) # {}
  /\ \E i \in DOMAIN PtrRtCheck.Pointers : \E j \in DOMAIN PtrRtCheck.Pointers :
       /\ i # j
       /\ PtrRtCheck.Pointers[i].IsWritePtr
       /\ PtrRtCheck.Pointers[i].DependencySetId
            = PtrRtCheck.Pointers[j].DependencySetId
       /\ PtrRtCheck.Pointers[i].AliasSetId = PtrRtCheck.Pointers[j].AliasSetId
       /\ ~needsChecking(PtrRtCheck.Pointers, i, j)

(***************************************************************************)
(* C10.                                                                    *)
(***************************************************************************)
\* C10: in every result with can_vectorize = true and need_runtime_check =
\* true the two pointers of every pair a runtime check is emitted for are in
\* one address space, and a loop whose descriptor has such a pair with
\* pointers of two address spaces is rejected.
C10_CheckedPairsShareAddressSpace ==
  [][ /\ (pc' = "done" /\ CanVecMem' /\ PtrRtCheck'.Need)
           => CrossAddressSpacePairs(PtrRtCheck'.Pointers) = {}
      /\ (AtThresholdTest /\ CrossAddressSpacePairs(PtrRtCheck.Pointers) # {})
           => (pc' = "done" /\ ~CanVecMem' /\ Report' # NoReport) ]_vars

\* The builder has collected a pair to check whose pointers are in two
\* address spaces.
C10_Witness ==
  /\ AtThresholdTest
  /\ CrossAddressSpacePairs(PtrRtCheck.Pointers) # {}

(***************************************************************************)
(* C11.                                                                    *)
(***************************************************************************)
\* The pointers of alias set AS that are written through and the others.
WritePointersOf(AS) ==
  {p \in Range(AS) : MemAccessInfo(p, TRUE) \in Range(Accesses)}

ReadPointersOf(AS) == Range(AS) \ WritePointersOf(AS)

\* writes * (reads + writes - 1) summed over the alias sets from Tracker on.
RECURSIVE ComparisonsOfEveryPointer(_)
ComparisonsOfEveryPointer(Tracker) ==
  IF Tracker = <<>> THEN 0
  ELSE Cardinality(WritePointersOf(Head(Tracker)))
         * (Cardinality(Range(Head(Tracker))) - 1)
       + ComparisonsOfEveryPointer(Tail(Tracker))

\* Every pointer of every alias set is an affine recurrence of stride +1,
\* no two pointers of one alias set are in different address spaces and the
\* comparisons do not exceed the threshold.
RetryIsFeasible ==
  /\ \A i \in DOMAIN AST : \A p \in Range(AST[i]) :
       /\ Pointers[p].scev.kind = "addrec"
       /\ Pointers[p].scev.affine
       /\ isStridedPtr(Strides, p) = 1
  /\ \A i \in DOMAIN AST : \A p \in Range(AST[i]) : \A q \in Range(AST[i]) :
       getPointerAddressSpace(p) = getPointerAddressSpace(q)
  /\ ComparisonsOfEveryPointer(AST) <= RuntimeMemoryCheckThreshold

\* C11: when the dependence check fails with the retry flag set, the driver
\* clears CheckDeps and the descriptor and runs the builder again, every
\* pointer in a dependence set of its own; the loop is then accepted, with
\* need_runtime_check = true and every tracked pointer in the descriptor,
\* exactly when every pointer of every alias set is an affine recurrence of
\* stride +1, no pair of one alias set crosses address spaces and the
\* comparison count is within the threshold; otherwise it is rejected with
\* a diagnostic and a reset descriptor.
C11_RetryWithStrictStride ==
  [][ /\ (pc = "afterDeps" /\ ~CanVecMem /\ ShouldRetryWithRuntimeCheck)
           => /\ pc' = "checkRetry"
              /\ CheckDeps' = {}
              /\ PtrRtCheck'.Need
              /\ \A i \in DOMAIN PtrRtCheck'.Pointers :
                   /\ isStridedPtr(Strides, PtrRtCheck'.Pointers[i].Ptr) = 1
                   /\ \A j \in DOMAIN PtrRtCheck'.Pointers :
                        (i # j /\ PtrRtCheck'.Pointers[i].AliasSetId
                                    = PtrRtCheck'.Pointers[j].AliasSetId)
                          => PtrRtCheck'.Pointers[i].DependencySetId
                               # PtrRtCheck'.Pointers[j].DependencySetId
      /\ (pc' = "done" /\ ShouldRetryWithRuntimeCheck')
           => IF RetryIsFeasible'
              THEN /\ CanVecMem'
                   /\ PtrRtCheck'.Need
                   /\ Report' = NoReport
                   /\ Len(PtrRtCheck'.Pointers) = NumTrackedPointers(AST')
              ELSE /\ ~CanVecMem'
                   /\ Report' # NoReport
                   /\ PtrRtCheck' = ResetRtCheck ]_vars

\* A loop was accepted at the retry: a[i] and a[i+n] are both stored to.
C11_Witness ==
  /\ Done /\ ShouldRetryWithRuntimeCheck
  /\ CanVecMem /\ PtrRtCheck.Need
  /\ Len(PtrRtCheck.Pointers) = 2

(***************************************************************************)
(* C12.                                                                    *)
(***************************************************************************)
\* The loop has a LoopAccessInfo in the cache.
IsCached(Map, L) == L \in DOMAIN Map /\ Map[L] # 0

RangesOverlap(i, j) == Starts[i] <= Ends[j] /\ Starts[j] <= Ends[i]

\* C13: when need_runtime_check is true the value of the instruction that
\* addRuntimeCheck returns is true exactly when the ranges of at least one
\* pair i < j with needsChecking(i, j) overlap, start_i <= end_j and
\* start_j <= end_i compared as unsigned numbers, and the last instruction
\* emitted is the conjunction of that value with true; when it is false
\* addRuntimeCheck returns (null, null) and emits nothing.
C13_RuntimeCheckIsOrOfOverlaps ==
  RuntimeCheckRet.called =>
    IF PtrRtCheck.Need
    THEN /\ ~RuntimeCheckRet.IsNull
         /\ RuntimeCheckRet.Check
              <=> \E pr \in CheckedPairs(PtrRtCheck.Pointers) :
                    RangesOverlap(pr[1], pr[2])
         /\ Emitted # <<>>
         /\ Emitted[Len(Emitted)]
              = Instruction("memcheck.conflict", RuntimeCheckRet.Check)
         /\ Len(Emitted) = 4 * Cardinality(CheckedPairs(PtrRtCheck.Pointers))
    ELSE /\ RuntimeCheckRet.IsNull
         /\ RuntimeCheckRet.FirstInst = 0
         /\ Emitted = <<>>

\* A check of two pairs was emitted and only the second pair overlaps.
C13_Witness ==
  /\ RuntimeCheckRet.called /\ PtrRtCheck.Need /\ CanVecMem
  /\ Cardinality(CheckedPairs(PtrRtCheck.Pointers)) = 2
  /\ RuntimeCheckRet.Check
  /\ ~Emitted[3].val

(***************************************************************************)
(* C14.                                                                    *)
(***************************************************************************)
\* The expression of the pointer is an affine add-recurrence over the
\* analysed loop.
IsAffineRecurrenceOverL(P) ==
  P.scev.kind = "addrec" /\ P.scev.affine /\ P.scev.loop = "L"

\* C14: isStridedPtr returns 0 whenever the pointer's expression is not an
\* affine add-recurrence over the analysed loop, a recurrence over another
\* loop included.
C14_NotOverLoopIsNotStrided ==
  (StrideRet.called /\ ~IsAffineRecurrenceOverL(StridePtr))
    => StrideRet.value = 0

(***************************************************************************)
(* C15.                                                                    *)
(***************************************************************************)
\* C15: isStridedPtr returns 0 whenever the recurrence has no no-wrap flag,
\* the pointer is no in-bounds element address and its address space is not
\* 0; and it returns a value other than 0, +1 and -1 only for a recurrence
\* with a no-wrap flag.
C15_WrapSafety ==
  StrideRet.called =>
    /\ (~StridePtr.scev.nowrap /\ ~StridePtr.inbounds /\ StridePtr.as # 0)
         => StrideRet.value = 0
    /\ StrideRet.value \notin {0, 1, -1} => StridePtr.scev.nowrap

\* An in-bounds pointer to 4-byte elements whose recurrence has a step of 8
\* and no no-wrap flag: the stride of 2 is refused.
C15_Witness ==
  /\ StrideRet.called
  /\ StridePtr.scev.kind = "addrec" /\ StridePtr.scev.stepConst
  /\ ~StridePtr.scev.wide /\ ~StridePtr.scev.nowrap
  /\ StridePtr.inbounds /\ StridePtr.as = 1
  /\ StridePtr.ty = "i32" /\ StridePtr.scev.step = 8
  /\ StrideRet.value = 0

(***************************************************************************)
(* C16.                                                                    *)
(***************************************************************************)
\* C16: for a pointee that is no aggregate, of allocation size z, and a
\* no-wrap affine recurrence whose constant step s fits in 64 bits,
\* isStridedPtr returns the signed quotient s / z when z divides s and 0
\* otherwise, never a truncated form of the quotient.
C16_ExactQuotient ==
  (/\ StrideRet.called
   /\ ~isAggregateType(StridePtr.ty)
   /\ StridePtr.scev.kind = "addrec" /\ StridePtr.scev.affine
   /\ StridePtr.scev.nowrap
   /\ StridePtr.scev.stepConst /\ ~StridePtr.scev.wide)
    => StrideRet.value
         = IF SRem(StridePtr.scev.step, getTypeAllocSize(StridePtr.ty)) = 0
           THEN SDiv(StridePtr.scev.step, getTypeAllocSize(StridePtr.ty))
           ELSE 0

(***************************************************************************)
(* C17.                                                                    *)
(***************************************************************************)
\* The pointers the loop loads from and the pointers it stores to.
LoadedPointers == Range(PointerOperands(InstMap, FALSE))

StoredPointers == Range(PointerOperands(InstMap, TRUE))

\* C17 as stated: a load's pointer is marked read-only exactly when no store
\* through it occurs in the loop and its stride is +1 or -1.
C17_AsStated ==
  [][pc = "loads" =>
       \A p \in LoadedPointers :
         p \in ReadOnlyPtr'
           <=> (p \notin StoredPointers /\ isStridedPtr(Strides, p) \in {1, -1})
    ]_vars

\* C17: a load's pointer is marked read-only exactly when no store through
\* it occurs in the loop or isStridedPtr returns 0 for it; nothing else is
\* marked.
C17_ReadOnlyMarking ==
  [][pc = "loads" =>
       ReadOnlyPtr' = {p \in LoadedPointers :
                         p \notin StoredPointers \/ isStridedPtr(Strides, p) = 0}
    ]_vars

\* The loads are collected; a pointer of stride 2 that is only loaded from
\* and an indirectly indexed pointer that is also stored to are both marked.
C17_Witness ==
  /\ pc = "buildDependenceSets"
  /\ "e0" \in LoadedPointers \ StoredPointers
  /\ isStridedPtr(Strides, "e0") = 2
  /\ "e0" \in ReadOnlyPtr
  /\ "ax" \in LoadedPointers \cap StoredPointers
  /\ isStridedPtr(Strides, "ax") = 0
  /\ "ax" \in ReadOnlyPtr

(***************************************************************************)
(* Vocabulary of C18 to C20: the pair (A, B) a call of isDependent is      *)
(* about, A being the access that comes first in program order.            *)
(***************************************************************************)
\* Dist of line 747, after the inversion of lines 737-745.
DistOfPair(A, B) ==
  IF isStridedPtr(Strides, A.ptr) < 0
  THEN getMinusSCEV(replaceSymbolicStrideSCEV(Strides, A.ptr),
                    replaceSymbolicStrideSCEV(Strides, B.ptr))
  ELSE getMinusSCEV(replaceSymbolicStrideSCEV(Strides, B.ptr),
                    replaceSymbolicStrideSCEV(Strides, A.ptr))

\* The pair is no pair of reads, is within one address space and has equal
\* non-zero strides and a constant distance.
HasConstantDistance(A, B) ==
  /\ A.write \/ B.write
  /\ getPointerAddressSpace(A.ptr) = getPointerAddressSpace(B.ptr)
  /\ isStridedPtr(Strides, A.ptr) # 0
  /\ isStridedPtr(Strides, A.ptr) = isStridedPtr(Strides, B.ptr)
  /\ DistOfPair(A, B).const

AccessSize(A) == getTypeAllocSize(getElementType(A.ptr))

\* Store-to-load forwarding is broken at distance d for elements of T bytes.
ForwardingIsBroken(d, T, MaxSafe) ==
  couldPreventStoreLoadForward(ToUnsigned(d), ToUnsigned(T), MaxSafe).prevent

\* The call of isDependent for the pair at the head of the queue is about to
\* be made.
AtCallOfIsDependent == pc = "depLoop" /\ PairQueue # <<>>

\* What the positive distance d allows for accesses of one size T, the
\* first of which in program order is a write or not.
PositiveDistanceIsSafe(d, T, FirstIsWrite, SecondIsWrite, MaxSafe) ==
  /\ d >= 2 * T
  /\ 2 * T <= MaxSafe
  /\ d >= T * ForcedUnroll * ForcedFactor
  /\ (~FirstIsWrite /\ SecondIsWrite) => ~ForwardingIsBroken(d, T, MaxSafe)

\* When a negative distance d may make the pair unsafe.
NegativeDistanceMayBeUnsafe(d, A, B, MaxSafe) ==
  /\ A.write /\ ~B.write
  /\ \/ ForwardingIsBroken(Abs(d), AccessSize(A), MaxSafe)
     \/ AccessSize(A) # AccessSize(B)

(***************************************************************************)
(* C18.                                                                    *)
(***************************************************************************)
\* C18: for a pair with equal non-zero strides and a constant positive
\* distance d, T being the allocation size of the pointee: accesses of
\* different sizes are safe; accesses of one size are safe exactly when
\* d >= 2T, 2T <= max_safe_distance_bytes, d >= T * interleave * factor and,
\* if the earlier access reads and the later writes, forwarding is not
\* broken for d.
C18_PositiveDistance ==
  [][(/\ AtCallOfIsDependent
      /\ HasConstantDistance(Head(PairQueue).A, Head(PairQueue).B)
      /\ DistOfPair(Head(PairQueue).A, Head(PairQueue).B).val > 0)
       => IF AccessSize(Head(PairQueue).A) # AccessSize(Head(PairQueue).B)
          THEN pc' = "depLoop"
          ELSE pc' = "depLoop"
                 <=> PositiveDistanceIsSafe(
                       DistOfPair(Head(PairQueue).A, Head(PairQueue).B).val,
                       AccessSize(Head(PairQueue).A),
                       Head(PairQueue).A.write, Head(PairQueue).B.write,
                       DepMaxSafeDepDistBytes)
    ]_vars

(***************************************************************************)
(* C19.                                                                    *)
(***************************************************************************)
\* C19: for a pair with equal non-zero strides, positive or negative, and a
\* constant negative distance d, the pair is unsafe only if the access that
\* is earlier in program order writes, the later one reads, and forwarding
\* is broken for |d| or the accesses differ in size; in particular a pair
\* whose earlier access reads is safe.
C19_NegativeDistance ==
  [][(/\ AtCallOfIsDependent
      /\ HasConstantDistance(Head(PairQueue).A, Head(PairQueue).B)
      /\ DistOfPair(Head(PairQueue).A, Head(PairQueue).B).val < 0
      /\ pc' # "depLoop")
       => NegativeDistanceMayBeUnsafe(
            DistOfPair(Head(PairQueue).A, Head(PairQueue).B).val,
            Head(PairQueue).A, Head(PairQueue).B, DepMaxSafeDepDistBytes)
    ]_vars

(***************************************************************************)
(* C20.                                                                    *)
(***************************************************************************)
Min(a, b) == IF a < b THEN a ELSE b

\* The source and the sink of the pair after the inversion of lines 737-745.
SourceOf(A, B) == IF isStridedPtr(Strides, A.ptr) < 0 THEN B ELSE A

SinkOf(A, B) == IF isStridedPtr(Strides, A.ptr) < 0 THEN A ELSE B

\* The pair of positive distance d gets past lines 798-821.
PassesDistanceTests(d, A, B, MaxSafe) ==
  /\ getElementType(A.ptr) = getElementType(B.ptr)
  /\ d >= 2 * AccessSize(A)
  /\ 2 * AccessSize(A) <= MaxSafe
  /\ d >= AccessSize(A) * ForcedUnroll * ForcedFactor

DistanceFrame(d, A, B, Src, Snk, Old, New, Safe) ==
  /\ d > 0 =>
       /\ ~PassesDistanceTests(d, A, B, Old) => New = Old
       /\ PassesDistanceTests(d, A, B, Old) =>
            /\ 2 * AccessSize(A) <= New /\ New <= Min(Old, d)
            /\ (Src.write \/ ~Snk.write) => (New = Min(Old, d) /\ Safe)
            /\ ~Safe => New = Min(Old, d)
  /\ d < 0 =>
       /\ ~(Src.write /\ ~Snk.write) => (New = Old /\ Safe)
       /\ New # Old =>
            /\ 2 * AccessSize(A) <= New
            /\ ~ForwardingIsBroken(Abs(d), AccessSize(Src), Old)

RECURSIVE WidthByTheRule(_, _, _, _)
WidthByTheRule(vf, Limit, d, T) ==
  IF vf > Limit THEN Limit
  ELSE IF d % vf # 0 /\ d \div vf < 8 * T THEN vf \div 2
  ELSE WidthByTheRule(2 * vf, Limit, d, T)

\* C21: couldPreventStoreLoadForward(d, T) scans vf = 2T, 4T, 8T, ... up to
\* min(max_safe_distance_bytes, 64T), stops at the first vf with
\* d mod vf # 0 and d / vf < 8T and takes vf / 2 as the maximum width,
\* otherwise the upper limit; it returns true exactly when that maximum is
\* below 2T, and the scan terminates for every d and every T >= 1.
C21_ForwardingScan ==
  ForwardRet.called =>
    /\ ForwardRet.returned
    /\ ForwardRet.value
         <=> WidthByTheRule(2 * ForwardArgs.TypeByteSize,
                            Min(ForwardArgs.MaxSafeDepDistBytes,
                                64 * ForwardArgs.TypeByteSize),
                            ForwardArgs.Distance, ForwardArgs.TypeByteSize)
               < 2 * ForwardArgs.TypeByteSize

(***************************************************************************)
(* C22.                                                                    *)
(***************************************************************************)
\* The calls of isDependent and the erasures that Queue still holds.
ChecksIn(Queue) == {q \in Range(Queue) : q.op = "check"}

ErasuresIn(Queue) == {q.A : q \in {e \in Range(Queue) : e.op = "erase"}}

\* Every pair of distinct members of the class, with every pair of their
\* program-order indices, the smaller index first.
PairsOfClass(Members) ==
  {CheckStep(m[1], i, m[2], j) :
     <<m, i, j>> \in
       {<<n, k, l>> \in (Members \X Members) \X (0..MaxInstrs) \X (0..MaxInstrs) :
          /\ n[1] # n[2]
          /\ k \in Range(AccessIndices(n[1]))
          /\ l \in Range(AccessIndices(n[2]))
          /\ k < l}}

\* The class of CurAccess is queued: all its pairs are to be inspected, and
\* each of its members is erased from CheckDeps or is about to be.
ClassIsQueued(CurAccess, Queue, Deps, DepsAfter) ==
  /\ ChecksIn(Queue) = PairsOfClass(Range(ECClassOf(DepCands, CurAccess)))
  /\ Deps \ DepsAfter \subseteq Range(ECClassOf(DepCands, CurAccess))
  /\ \A m \in Range(ECClassOf(DepCands, CurAccess)) :
       m \notin DepsAfter \/ m \in ErasuresIn(Queue)

\* The call at the head of the queue passes the accesses of two instructions
\* in program order.
HeadIsInProgramOrder ==
  /\ Head(PairQueue).op = "check"
  /\ Head(PairQueue).AIdx < Head(PairQueue).BIdx
  /\ InstMap[Head(PairQueue).AIdx + 1] = Head(PairQueue).A
  /\ InstMap[Head(PairQueue).BIdx + 1] = Head(PairQueue).B

\* C22: areDepsSafe, for every access in CheckDeps, inspects every pair of
\* distinct members of its equivalence class and, for each, every pair of
\* their program-order indices, the smaller index first; it returns unsafe
\* at the first unsafe verdict without inspecting further pairs, and it
\* returns safe only when CheckDeps is empty and no pair is left.
C22_ClassTraversal ==
  [][pc = "depLoop" =>
       /\ (PairQueue = <<>> /\ CheckDeps # {}) =>
            /\ pc' = "depLoop"
            /\ \E CurAccess \in CheckDeps :
                 ClassIsQueued(CurAccess, PairQueue', CheckDeps, CheckDeps')
       /\ PairQueue # <<>> =>
            /\ HeadIsInProgramOrder
            /\ pc' = "depLoop" =>
                 /\ ChecksIn(PairQueue') = ChecksIn(Tail(PairQueue))
                 /\ CheckDeps'
                      = CheckDeps \ (ErasuresIn(Tail(PairQueue))
                                       \ ErasuresIn(PairQueue'))
            /\ pc' # "depLoop" =>
                 /\ pc' = "afterDeps" /\ ~CanVecMem'
                 /\ PairQueue' = <<>>
       /\ (pc' = "afterDeps" /\ CanVecMem') =>
            /\ PairQueue = <<>>
            /\ CheckDeps = {}
    ]_vars

\* A class of three accesses is being traversed: two of its pairs were
\* judged safe or are still to be inspected.
C22_Witness ==
  /\ pc = "depLoop"
  /\ Cardinality(ChecksIn(PairQueue)) >= 2
  /\ \E q \in ChecksIn(PairQueue) : Len(ECClassOf(DepCands, q.A)) = 3
  /\ CheckDeps # {}

(***************************************************************************)
(* C23.                                                                    *)
(***************************************************************************)
\* The pair is no pair of reads, is within one address space and has equal
\* non-zero strides, and its distance is no constant.
HasUnknownDistance(A, B) ==
  /\ A.write \/ B.write
  /\ getPointerAddressSpace(A.ptr) = getPointerAddressSpace(B.ptr)
  /\ isStridedPtr(Strides, A.ptr) # 0
  /\ isStridedPtr(Strides, A.ptr) = isStridedPtr(Strides, B.ptr)
  /\ ~DistOfPair(A, B).const

\* C23: the retry with runtime checks is entered only when the pair that
\* areDepsSafe stopped on had equal non-zero strides and a distance that is
\* no constant; every other unsafe verdict ends in the rejection 'unsafe
\* dependent memory operations in loop' without a retry.
C23_RetryOnlyForUnknownDistance ==
  [][/\ pc = "depLoop" => ~ShouldRetryWithRuntimeCheck
     /\ AtCallOfIsDependent =>
          (ShouldRetryWithRuntimeCheck'
             <=> /\ pc' = "afterDeps"
                 /\ HasUnknownDistance(Head(PairQueue).A, Head(PairQueue).B))
     /\ pc' = "checkRetry" =>
          pc = "afterDeps" /\ ~CanVecMem /\ ShouldRetryWithRuntimeCheck
     /\ (pc = "afterDeps" /\ ~CanVecMem /\ ~ShouldRetryWithRuntimeCheck) =>
          /\ pc' = "done"
          /\ ~CanVecMem'
          /\ Report' = "unsafe dependent memory operations in loop"
    ]_vars

\* The retry was entered after a[i] and a[i+n] were compared.
C23_Witness ==
  /\ pc = "checkRetry"
  /\ ShouldRetryWithRuntimeCheck
  /\ Instrs = <<Load("a0"), Store("an")>>

(***************************************************************************)
(* C24.                                                                    *)
(***************************************************************************)
\* The alias sets of Tracker in every order.
OrdersOf(Tracker) ==
  {[i \in DOMAIN Tracker |-> Tracker[f[i]]] :
     f \in {g \in [DOMAIN Tracker -> DOMAIN Tracker] :
              \A i \in DOMAIN Tracker : \A j \in DOMAIN Tracker :
                g[i] = g[j] => i = j}}

\* canCheckPtrAtRT as the driver calls it first, the alias sets visited in
\* the order of Tracker.
CheckInOrder(Tracker) ==
  CheckedAddressSpaces(
    CheckAliasSets([CanDoRT |-> TRUE, NumComparisons |-> 0,
                    Pointers |-> <<>>,
                    NumReadPtrChecks |-> 0, NumWritePtrChecks |-> 0,
                    RunningDepId |-> 1,
                    DepSetId |-> [p \in PtrNames |-> 0]],
                   Tracker, 1, CheckDeps # {}, FALSE))

\* Lines 1111-1134: the driver rejects the loop on what the builder returned.
RejectsForBounds(r) ==
  r.NumComparisons # 0 /\ TooManyOrUnsizeable(r.ret, r.NumComparisons)

\* C24: for a fixed set of pointers and alias sets, the comparison count of
\* canCheckPtrAtRT, and with it the decision of the driver, is the same in
\* whatever order the alias sets are visited.
C24_OrderOfAliasSets ==
  (pc = "canCheckPtrAtRT" /\ NeedRTCheck) =>
    \A Tracker \in OrdersOf(AST) :
      /\ CheckInOrder(Tracker).NumComparisons = CheckInOrder(AST).NumComparisons
      /\ RejectsForBounds(CheckInOrder(Tracker))
           <=> RejectsForBounds(CheckInOrder(AST))

(***************************************************************************)
(* C25.                                                                    *)
(***************************************************************************)
\* The calls of isDependent that areDepsSafe has to make for CheckDeps.
PairsToInspect ==
  UNION {PairsOfClass(Range(ECClassOf(DepCands, c))) : c \in CheckDeps}

\* The elements of S in every order.
SequencesOf(S) ==
  {f \in [1..Cardinality(S) -> S] :
     \A i \in 1..Cardinality(S) : \A j \in 1..Cardinality(S) :
       f[i] = f[j] => i = j}

\* The verdict and MaxSafeDepDistBytes when the pairs are inspected in the
\* order of Pairs, up to the first unsafe one.
RECURSIVE InspectInOrder(_, _)
InspectInOrder(Pairs, MaxSafe) ==
  IF Pairs = <<>> THEN [safe |-> TRUE, max |-> MaxSafe]
  ELSE IF isDependent(Head(Pairs).A, Head(Pairs).AIdx,
                      Head(Pairs).B, Head(Pairs).BIdx, MaxSafe).dep
  THEN [safe |-> FALSE, max |-> 0]
  ELSE InspectInOrder(Tail(Pairs),
                      isDependent(Head(Pairs).A, Head(Pairs).AIdx,
                                  Head(Pairs).B, Head(Pairs).BIdx, MaxSafe).max)

\* C25: for a fixed set of pairs to inspect, the verdict of areDepsSafe and,
\* when it is safe, the final max_safe_distance_bytes are the same in
\* whatever order the pairs are inspected.
C25_OrderOfPairs ==
  pc = "areDepsSafe" =>
    \A o1 \in SequencesOf(PairsToInspect) :
      \A o2 \in SequencesOf(PairsToInspect) :
        InspectInOrder(o1, UINT_MAX) = InspectInOrder(o2, UINT_MAX)

(***************************************************************************)
(* The comparisons counted by canCheckPtrAtRT and the pairs of the           *)
(* descriptor that needsChecking selects.                                    *)
(***************************************************************************)
\* A step that calls canCheckPtrAtRT: line 1104 or line 1155.
CallsCanCheckPtrAtRT ==
  \/ pc = "canCheckPtrAtRT" /\ NeedRTCheck /\ pc' = "checkRT"
  \/ pc = "afterDeps" /\ pc' = "checkRetry"

\* The analysis has ended and accepted the loop.
Accepted == pc = "done" /\ CanVecMem

\* C26: whenever canCheckPtrAtRT returns true, the pairs (i < j) of the
\* descriptor for which needsChecking holds are at most NumComparisons; in
\* every accepted result they are at most runtime-memory-check-threshold,
\* and there is none when need_runtime_check is false.
C26_CheckedPairsAreCounted ==
  [][ /\ (CallsCanCheckPtrAtRT /\ CanDoRT')
           => Cardinality(CheckedPairs(PtrRtCheck'.Pointers)) <= NumComparisons'
      /\ Accepted'
           => /\ Cardinality(CheckedPairs(PtrRtCheck'.Pointers))
                   <= RuntimeMemoryCheckThreshold
              /\ (~PtrRtCheck'.Need
                    => CheckedPairs(PtrRtCheck'.Pointers) = {}) ]_vars

\* An accepted result whose runtime check compares fewer pairs than were
\* counted.
C26_Witness ==
  /\ Accepted /\ PtrRtCheck.Need
  /\ CheckedPairs(PtrRtCheck.Pointers) # {}
  /\ Cardinality(CheckedPairs(PtrRtCheck.Pointers)) < NumComparisons

(***************************************************************************)
(* A load and a store through one pointer that is not strided.              *)
(***************************************************************************)
\* The pointers of the loop body with an access of the given kind.
PointersOfKind(Kind) ==
  {Instrs[i].ptr : i \in {j \in DOMAIN Instrs : Instrs[j].kind = Kind}}

\* The pointers the body both loads from and stores to and for which
\* isStridedPtr returns 0, as a[b[i]] in `a[b[i]] += x`.
IndirectUpdates ==
  {p \in PointersOfKind("load") \cap PointersOfKind("store") :
     isStridedPtr(Strides, p) = 0}

\* C27: a loop that is not annotated parallel and holds a store and a load
\* through one pointer for which isStridedPtr returns 0 is never reported
\* with can_vectorize = true, whatever its other accesses, the alias
\* partition and whether or not the retry path is taken.
C27_IndirectUpdateIsRejected ==
  (Done /\ ~IsAnnotatedParallel /\ IndirectUpdates # {}) => ~CanVecMem

\* Such a loop rejected after the retry with the runtime check.
C27_Witness ==
  /\ Done /\ ~IsAnnotatedParallel /\ IndirectUpdates # {}
  /\ ShouldRetryWithRuntimeCheck
  /\ ~CanVecMem

(***************************************************************************)
(* The diagnostics of the retry with the runtime check.                     *)
(***************************************************************************)
\* The step of lines 1159-1175 records the diagnostic.
RetryRecords(Message) ==
  pc = "checkRetry" /\ pc' = "done" /\ Report' = Message

\* C28: on the retry path the diagnostic `N exceeds limit of threshold
\* dependent memory operations checked at runtime` is recorded only when the
\* builder succeeded and N, the NumComparisons it computed, is strictly
\* greater than the threshold; when the builder failed the diagnostic
\* recorded is `cannot check memory dependencies at runtime`.
C28_RetryDiagnostics ==
  [][ /\ RetryRecords("exceeds limit of dependent memory operations checked at runtime")
           => (CanDoRT /\ NumComparisons > RuntimeMemoryCheckThreshold)
      /\ (pc = "checkRetry" /\ ~CanDoRT)
           => RetryRecords("cannot check memory dependencies at runtime") ]_vars

\* The retry has ended with more comparisons than the threshold allows, all
\* of them between pointers with computable bounds.
C28_Witness ==
  /\ Done /\ ShouldRetryWithRuntimeCheck /\ CanDoRT
  /\ Report = "exceeds limit of dependent memory operations checked at runtime"
  /\ NumComparisons > RuntimeMemoryCheckThreshold

====
